---- MODULE Spec2Model ----
(***************************************************************************)
(* creddy-anthropic: token store, credential plugin and authenticating     *)
(* reverse proxy (src/plugin.go, src/proxy.go).                            *)
(*                                                                         *)
(* Strings are sequences of atoms, so that concatenation ("crd_" + hex)    *)
(* and strings.TrimPrefix are computed rather than assumed:                *)
(*   "Bearer crd_a" is <<"Bearer ", "crd_", "a">>, "" is <<>>.             *)
(* Wall-clock time is the integer variable now.                            *)
(***************************************************************************)
EXTENDS Integers, Sequences, FiniteSets, TLC

\* ------------------------------------------------------------------ bounds
MaxTime == 3
NTasks == 2
TicksPerSecond == 2

\* --------------------------------------------------------------- constants
DefaultProxyPort == 8401
StatusOK == 200
StatusUnauthorized == 401
StatusInternalServerError == 500
StatusBadGateway == 502
StatusMethodNotAllowed == 405

\* ------------------------------------------------------------- input sets
EmptyStr == << >>
HexPool == {"a", "b"}
Secrets == {<<"sk-ant-", "x">>, <<"sk-ant-", "y">>}
Agents == {[ID |-> "agent1", Name |-> "Agent One"], [ID |-> "agent2", Name |-> "Agent Two"]}
Scopes == {"anthropic"}
TTLSet == {-1, 0, 1}
Ports == {0, 19402}

VARIABLES
    now,       \* wall clock (time.Now())
    config,    \* AnthropicPlugin.config: NilConfig or an AnthropicConfig
    tokens,    \* TokenStore.tokens: map from token string to TokenInfo
    proxy,     \* AnthropicPlugin.proxy: TRUE once a proxy server was started
    lastOp,    \* the last API call made and what it returned
    req,       \* the proxy request being served (one goroutine of the HTTP server)
    mu,        \* TokenStore.mu: the goroutine holding the write lock, and the readers
    task,      \* goroutines calling TokenStore.Add and TokenStore.Get concurrently
    plain      \* a second TokenStore.tokens, of a store on which Cleanup is never called

vars == <<now, config, tokens, proxy, lastOp, req, mu, task, plain>>

NilConfig == [nil |-> TRUE]
NilInfo == [nil |-> TRUE]
NilError == "nil"

\* type TokenInfo struct
TokenInfo(agentID, agentName, scope, expiresAt, createdAt) ==
    [AgentID |-> agentID, AgentName |-> agentName, Scope |-> scope,
     ExpiresAt |-> expiresAt, CreatedAt |-> createdAt]

\* time.Time.After: t is strictly later than u
After(t, u) == t > u

\* time.Time.Add
TimeAdd(t, d) == t + d

\* delete(m, key) on a Go map
MapDelete(m, key) == [k \in (DOMAIN m) \ {key} |-> m[k]]

\* m[key] = value on a Go map
MapSet(m, key, value) == [k \in (DOMAIN m) \cup {key} |-> IF k = key THEN value ELSE m[k]]

\* ------------------------------------------------------------- TokenStore
NewTokenStore == [k \in {} |-> NilInfo]

\* A plausible slip: insert only when the key is new.
Add_keepExisting(s, token, info) ==
    IF token \in DOMAIN s THEN s ELSE MapSet(s, token, info)

Add(s, token, info) == MapSet(s, token, info)

\* Plausible slips in Get, each used to test one property.
Get_noExpiryCheck(s, token, t) ==
    IF token \notin DOMAIN s
    THEN [info |-> NilInfo, ok |-> FALSE, tokens |-> s]
    ELSE [info |-> s[token], ok |-> TRUE, tokens |-> s]

Get_expiredAtExpiry(s, token, t) ==
    IF token \notin DOMAIN s
    THEN [info |-> NilInfo, ok |-> FALSE, tokens |-> s]
    ELSE IF ~(t < s[token].ExpiresAt)
         THEN [info |-> NilInfo, ok |-> FALSE, tokens |-> s]
         ELSE [info |-> s[token], ok |-> TRUE, tokens |-> s]

Get_noPresenceCheck(s, token, t) ==
    IF token \notin DOMAIN s
    THEN [info |-> NilInfo, ok |-> TRUE, tokens |-> s]
    ELSE IF After(t, s[token].ExpiresAt)
         THEN [info |-> NilInfo, ok |-> FALSE, tokens |-> s]
         ELSE [info |-> s[token], ok |-> TRUE, tokens |-> s]

Get_deleteOnExpiry(s, token, t) ==
    IF token \notin DOMAIN s
    THEN [info |-> NilInfo, ok |-> FALSE, tokens |-> s]
    ELSE IF After(t, s[token].ExpiresAt)
         THEN [info |-> NilInfo, ok |-> FALSE, tokens |-> MapDelete(s, token)]
         ELSE [info |-> s[token], ok |-> TRUE, tokens |-> s]

\* Get returns (info, ok) and the map as it is when Get returns.
Get(s, token, t) ==
    IF token \notin DOMAIN s
    THEN [info |-> NilInfo, ok |-> FALSE, tokens |-> s]
    ELSE IF After(t, s[token].ExpiresAt)
         THEN [info |-> NilInfo, ok |-> FALSE, tokens |-> s]
         ELSE [info |-> s[token], ok |-> TRUE, tokens |-> s]

Remove_keep(s, token) == s

Remove_clearWhenAbsent(s, token) ==
    IF token \in DOMAIN s THEN MapDelete(s, token) ELSE NewTokenStore

Remove(s, token) == MapDelete(s, token)

\* The range loop of Cleanup: keys is the part of the map still to visit.
RECURSIVE CleanupLoop(_, _, _, _)
CleanupLoop(s, keys, t, removed) ==
    IF keys = {}
    THEN [tokens |-> s, removed |-> removed]
    ELSE LET token == CHOOSE k \in keys : TRUE
         IN  IF After(t, s[token].ExpiresAt)
             THEN CleanupLoop(MapDelete(s, token), keys \ {token}, t, removed + 1)
             ELSE CleanupLoop(s, keys \ {token}, t, removed)

Cleanup_atExpiry(s, t) ==
    LET dead == {k \in DOMAIN s : ~(t < s[k].ExpiresAt)}
    IN  [tokens |-> [k \in (DOMAIN s) \ dead |-> s[k]], removed |-> Cardinality(dead)]

\* Plausible slip: the comparison of Cleanup is the wrong way round.
Cleanup_reversed(s, t) ==
    LET dead == {k \in DOMAIN s : After(s[k].ExpiresAt, t)}
    IN  [tokens |-> [k \in (DOMAIN s) \ dead |-> s[k]], removed |-> Cardinality(dead)]

Cleanup(s, t) == CleanupLoop(s, DOMAIN s, t, 0)

\* ------------------------------------------------------- AnthropicPlugin
\* For the calls recorded in lastOp: ok is Get's second result, and for
\* RevokeCredential and Add whether the key was in the map before the call.
\* json.Unmarshal into AnthropicConfig: missing fields keep their zero value.
ConfigInputs ==
    {[valid |-> FALSE, api_key |-> k, proxy_port |-> 0] : k \in {EmptyStr, <<"sk-ant-", "x">>}}
    \cup {[valid |-> TRUE, api_key |-> k, proxy_port |-> p] :
            k \in Secrets \cup {EmptyStr}, p \in Ports}

Unmarshal(configJSON) ==
    IF ~configJSON.valid
    THEN [err |-> "invalid character", cfg |-> NilConfig]
    ELSE [err |-> NilError,
          cfg |-> [APIKey |-> configJSON.api_key, ProxyPort |-> configJSON.proxy_port]]

\* Plausible slip: the parsed configuration is stored before api_key is checked.
ConfigureResult_storeFirst(cur, started, configJSON) ==
    LET u == Unmarshal(configJSON)
    IN  IF u.err # NilError
        THEN [err |-> u.err, config |-> cur, proxy |-> started, starts |-> FALSE]
        ELSE IF u.cfg.APIKey = EmptyStr
        THEN [err |-> "api_key is required", config |-> u.cfg, proxy |-> started,
              starts |-> FALSE]
        ELSE [err |-> NilError,
              config |-> IF u.cfg.ProxyPort = 0
                         THEN [u.cfg EXCEPT !.ProxyPort = DefaultProxyPort]
                         ELSE u.cfg,
              proxy |-> TRUE, starts |-> TRUE]

\* Configure returns the error and the plugin fields it leaves behind;
\* starts tells whether this call created and started a proxy server.
ConfigureResult(cur, started, configJSON) ==
    LET u == Unmarshal(configJSON)
    IN  IF u.err # NilError
        THEN [err |-> u.err, config |-> cur, proxy |-> started, starts |-> FALSE]
        ELSE IF u.cfg.APIKey = EmptyStr
        THEN [err |-> "api_key is required", config |-> cur, proxy |-> started,
              starts |-> FALSE]
        ELSE [err |-> NilError,
              config |-> IF u.cfg.ProxyPort = 0
                         THEN [u.cfg EXCEPT !.ProxyPort = DefaultProxyPort]
                         ELSE u.cfg,
              proxy |-> TRUE, starts |-> TRUE]

\* Plausible slip: Validate does not look at the configuration.
ValidateErr_never(cfg) == NilError

\* Validate: the error it returns
ValidateErr(cfg) == IF cfg = NilConfig THEN "plugin not configured" ELSE NilError

\* generateToken: "crd_" + hex.EncodeToString(random bytes)
generateToken(hex) == <<"crd_">> \o <<hex>>

GetAPIKey(cfg) == IF cfg = NilConfig THEN EmptyStr ELSE cfg.APIKey

\* sdk.Credential as GetCredential fills it
Credential(value, expiresAt, externalID) ==
    [Value |-> value, ExpiresAt |-> expiresAt, ExternalID |-> externalID]

ValidateToken(s, token, t) == Get(s, token, t)

\* Plausible slip: revoking a token that is not in the store is reported as an error.
RevokeCredentialResult_errWhenAbsent(s, externalID) ==
    [tokens |-> Remove(s, externalID),
     err |-> IF externalID \in DOMAIN s THEN NilError ELSE "token not found"]

\* RevokeCredential: the store it leaves and the error it returns
RevokeCredentialResult(s, externalID) ==
    [tokens |-> Remove(s, externalID), err |-> NilError]

\* Token strings a caller may present: issued ones and ones never issued.
TokenStrings == {generateToken(h) : h \in HexPool} \cup {<<"crd_", "never">>, EmptyStr}

\* ------------------------------------------------------------------ Proxy
AnthropicAPIURL == <<"https://api.anthropic.com">>
BearerPrefix == <<"Bearer ">>
DefaultAnthropicVersion == <<"2023-06-01">>
EventStream == "text/event-stream"
EOF == "EOF"

\* strings.TrimPrefix
TrimPrefix(str, prefix) ==
    IF Len(str) >= Len(prefix) /\ SubSeq(str, 1, Len(prefix)) = prefix
    THEN SubSeq(str, Len(prefix) + 1, Len(str))
    ELSE str

\* strings.Contains, for a substring that is one atom
Contains(str, atom) == \E i \in 1..Len(str) : str[i] = atom

\* Header names in the spellings used here, with their lower-case form.
ToLower ==
    [k \in {"x-api-key", "X-Api-Key", "authorization", "Authorization",
            "connection", "Connection", "Keep-Alive", "keep-alive",
            "PROXY-AUTHENTICATE", "Proxy-Authenticate",
            "proxy-authorization", "Proxy-Authorization", "TE", "te", "Te",
            "trailers", "Trailers", "Transfer-Encoding", "transfer-encoding",
            "UPGRADE", "upgrade", "Upgrade", "host", "Host",
            "anthropic-version", "Anthropic-Version", "anthropic-beta", "Anthropic-Beta",
            "content-type", "Content-Type"} |->
        CASE k \in {"x-api-key", "X-Api-Key"} -> "x-api-key"
          [] k \in {"authorization", "Authorization"} -> "authorization"
          [] k \in {"connection", "Connection"} -> "connection"
          [] k \in {"Keep-Alive", "keep-alive"} -> "keep-alive"
          [] k \in {"PROXY-AUTHENTICATE", "Proxy-Authenticate"} -> "proxy-authenticate"
          [] k \in {"proxy-authorization", "Proxy-Authorization"} -> "proxy-authorization"
          [] k \in {"TE", "te", "Te"} -> "te"
          [] k \in {"trailers", "Trailers"} -> "trailers"
          [] k \in {"Transfer-Encoding", "transfer-encoding"} -> "transfer-encoding"
          [] k \in {"UPGRADE", "upgrade", "Upgrade"} -> "upgrade"
          [] k \in {"host", "Host"} -> "host"
          [] k \in {"anthropic-version", "Anthropic-Version"} -> "anthropic-version"
          [] k \in {"anthropic-beta", "Anthropic-Beta"} -> "anthropic-beta"
          [] k \in {"content-type", "Content-Type"} -> "content-type"]

\* http.CanonicalHeaderKey on the header names used here: the first letter
\* and every letter after a hyphen in upper case, the rest in lower case.
CanonicalTable ==
    [k \in DOMAIN ToLower |->
        CASE ToLower[k] = "x-api-key" -> "X-Api-Key"
          [] ToLower[k] = "authorization" -> "Authorization"
          [] ToLower[k] = "connection" -> "Connection"
          [] ToLower[k] = "keep-alive" -> "Keep-Alive"
          [] ToLower[k] = "proxy-authenticate" -> "Proxy-Authenticate"
          [] ToLower[k] = "proxy-authorization" -> "Proxy-Authorization"
          [] ToLower[k] = "te" -> "Te"
          [] ToLower[k] = "trailers" -> "Trailers"
          [] ToLower[k] = "transfer-encoding" -> "Transfer-Encoding"
          [] ToLower[k] = "upgrade" -> "Upgrade"
          [] ToLower[k] = "host" -> "Host"
          [] ToLower[k] = "anthropic-version" -> "Anthropic-Version"
          [] ToLower[k] = "anthropic-beta" -> "Anthropic-Beta"
          [] ToLower[k] = "content-type" -> "Content-Type"]

CanonicalHeaderKey(key) == IF key \in DOMAIN CanonicalTable THEN CanonicalTable[key] ELSE key

NoHeader == [k \in {} |-> << >>]

\* http.Header.Get: first value of the canonical key, "" when absent
HeaderGet(h, key) ==
    LET k == CanonicalHeaderKey(key)
    IN  IF k \in DOMAIN h /\ Len(h[k]) > 0 THEN h[k][1] ELSE EmptyStr

\* http.Header.Add
HeaderAdd(h, key, value) ==
    LET k == CanonicalHeaderKey(key)
    IN  MapSet(h, k, (IF k \in DOMAIN h THEN h[k] ELSE << >>) \o <<value>>)

\* http.Header.Set
HeaderSet(h, key, value) == MapSet(h, CanonicalHeaderKey(key), <<value>>)

RECURSIVE HeaderAddAll(_, _, _)
HeaderAddAll(h, key, values) ==
    IF values = << >> THEN h
    ELSE HeaderAddAll(HeaderAdd(h, key, Head(values)), key, Tail(values))

\* The server reads the header lines of the request into r.Header.
RECURSIVE ReadHeader(_, _, _)
ReadHeader(wire, keys, h) ==
    IF keys = {} THEN h
    ELSE LET key == CHOOSE k \in keys : TRUE
         IN  ReadHeader(wire, keys \ {key}, HeaderAddAll(h, key, wire[key]))

HopByHop ==
    {"Connection", "Keep-Alive", "Proxy-Authenticate", "Proxy-Authorization",
     "Te", "Trailers", "Transfer-Encoding", "Upgrade"}

isHopByHop(header) == CanonicalHeaderKey(header) \in HopByHop

\* Plausible slips in the request header filter.
SkipRequestHeader_keepHopByHop(key) == key = "Authorization" \/ key = "X-Api-Key"

SkipRequestHeader_keepAuthorization(key) == isHopByHop(key) \/ key = "X-Api-Key"

SkipRequestHeader(key) == isHopByHop(key) \/ key = "Authorization" \/ key = "X-Api-Key"

\* for key, values := range src { if skip(key) { continue }; dst.Add(key, value)... }
RECURSIVE CopyRequestHeaders(_, _, _)
CopyRequestHeaders(src, keys, dst) ==
    IF keys = {} THEN dst
    ELSE LET key == CHOOSE k \in keys : TRUE
         IN  IF SkipRequestHeader(key)
             THEN CopyRequestHeaders(src, keys \ {key}, dst)
             ELSE CopyRequestHeaders(src, keys \ {key}, HeaderAddAll(dst, key, src[key]))

\* Plausible slip: the response headers are copied unfiltered.
SkipResponseHeader_none(key) == FALSE

SkipResponseHeader(key) == isHopByHop(key)

RECURSIVE CopyResponseHeaders(_, _, _)
CopyResponseHeaders(src, keys, dst) ==
    IF keys = {} THEN dst
    ELSE LET key == CHOOSE k \in keys : TRUE
         IN  IF SkipResponseHeader(key)
             THEN CopyResponseHeaders(src, keys \ {key}, dst)
             ELSE CopyResponseHeaders(src, keys \ {key}, HeaderAddAll(dst, key, src[key]))

\* Plausible slip: x-api-key is looked at first, Authorization as the fallback.
ExtractToken_keyFirst(h) ==
    LET key == HeaderGet(h, "x-api-key")
    IN  IF key # EmptyStr THEN key
        ELSE TrimPrefix(HeaderGet(h, "Authorization"), BearerPrefix)

\* Token extraction of handleRequest
ExtractToken(h) ==
    LET authHeader == HeaderGet(h, "Authorization")
        token == IF authHeader # EmptyStr THEN TrimPrefix(authHeader, BearerPrefix) ELSE EmptyStr
    IN  IF token = EmptyStr THEN HeaderGet(h, "x-api-key") ELSE token

\* Headers of the upstream request
UpstreamHeader_keepInboundKey(h, apiKey) ==
    LET copied == CopyRequestHeaders(h, DOMAIN h, NoHeader)
        keyed == IF "X-Api-Key" \in DOMAIN h THEN MapSet(copied, "X-Api-Key", h["X-Api-Key"])
                 ELSE HeaderSet(copied, "x-api-key", apiKey)
    IN  keyed

\* Plausible slip: the default anthropic-version is set unconditionally.
UpstreamHeader_alwaysDefault(h, apiKey) ==
    LET copied == CopyRequestHeaders(h, DOMAIN h, NoHeader)
        keyed == HeaderSet(copied, "x-api-key", apiKey)
    IN  HeaderSet(keyed, "anthropic-version", DefaultAnthropicVersion)

UpstreamHeader(h, apiKey) ==
    LET copied == CopyRequestHeaders(h, DOMAIN h, NoHeader)
        keyed == HeaderSet(copied, "x-api-key", apiKey)
    IN  IF HeaderGet(keyed, "anthropic-version") = EmptyStr
        THEN HeaderSet(keyed, "anthropic-version", DefaultAnthropicVersion)
        ELSE keyed

UpstreamURL(r) ==
    LET base == AnthropicAPIURL \o r.Path
    IN  IF r.RawQuery # EmptyStr THEN base \o <<"?">> \o r.RawQuery ELSE base

\* http.NewRequestWithContext fails when the URL does not parse.
NewRequestFails(url) == Contains(url, "%zz")

\* The server parses the request target: r.URL.Path is the path with its
\* percent-escapes decoded.
PathUnescape(path) ==
    [i \in 1..Len(path) |->
        CASE path[i] = "%2F" -> "/"
          [] path[i] = "%25zz" -> "%zz"
          [] OTHER -> path[i]]

\* url.Parse of the upstream URL: what follows the base up to the first "?"
\* is the path the client sends, what follows the "?" the query.
QueryMark(url) ==
    IF Contains(url, "?") THEN CHOOSE i \in 1..Len(url) :
                                   url[i] = "?" /\ \A j \in 1..(i - 1) : url[j] # "?"
    ELSE Len(url) + 1
URLPath(url) == SubSeq(url, Len(AnthropicAPIURL) + 1, QueryMark(url) - 1)
URLQuery(url) == SubSeq(url, QueryMark(url) + 1, Len(url))

\* (*url.Error).Error() of the error client.Do returns: Op "URL": Err
URLErrorOp(method) == IF method = "POST" THEN "Post" ELSE "Get"
Quote == "\""
URLError(method, url, err) ==
    <<URLErrorOp(method), " ", Quote>> \o url \o <<Quote, ": ">> \o err

\* The errors the client's timer produces: client.Do fails while the response
\* headers are awaited, Body.Read fails while the body is read.
ClientTimeout == 120
TimeoutAwaitingHeaders ==
    <<"context deadline exceeded (Client.Timeout exceeded while awaiting headers)">>
TimeoutReadingBody ==
    "context deadline exceeded (Client.Timeout or context cancellation while reading body)"

\* Plausible slip: the client is built without a timeout (zero means none).
NewClient_noTimeout == [Timeout |-> 0]

\* client := &http.Client{Timeout: 120 * time.Second}
NewClient == [Timeout |-> ClientTimeout]

NoRequest == [nil |-> TRUE]
NoResponse == [nil |-> TRUE]

\* The error bodies are written as text: {"error": {"type": "T", "message": "M"}}
\* (blanks left out). For the upstream error M is the format string's prefix
\* followed by err.Error(), put in as it is.
ErrorJSON(type, message) ==
    <<"{", Quote, "error", Quote, ":", "{", Quote, "type", Quote, ":", Quote, type, Quote, ",",
      Quote, "message", Quote, ":", Quote>> \o message \o <<Quote, "}", "}">>

MissingAPIKey == ErrorJSON("authentication_error", <<"Missing API key">>)
InvalidToken == ErrorJSON("authentication_error", <<"Invalid or revoked token">>)
InternalError == ErrorJSON("internal_error", <<"Failed to create upstream request">>)
UpstreamError(text) ==
    ErrorJSON("upstream_error", <<"Failed to reach Anthropic API: ">> \o text)

ErrorHeader ==
    [k \in {"Content-Type", "X-Content-Type-Options"} |->
        IF k = "Content-Type" THEN <<(<<"text/plain; charset=utf-8">>)>> ELSE <<(<<"nosniff">>)>>]

IdleRequest ==
    [pc |-> "idle", r |-> NoRequest, token |-> EmptyStr, valid |-> FALSE, info |-> NilInfo,
     up |-> NoRequest, calls |-> 0, status |-> 0, header |-> NoHeader, body |-> << >>,
     flushed |-> 0, resp |-> NoResponse, rest |-> << >>, closed |-> FALSE,
     log |-> << >>, trace |-> << >>]

\* Plausible slip: the error body repeats the token that was presented.
HttpError_echoToken(q, body, code) ==
    [q EXCEPT !.pc = "done", !.status = code, !.header = ErrorHeader,
              !.body = <<body \o q.token>>, !.trace = @ \o <<"WriteHeader">>]

\* Plausible slip: the return after http.Error is missing, the handler goes
\* on and forwards the request.
HttpError_noReturn(q, body, code) ==
    [q EXCEPT !.pc = "forwarding", !.status = code, !.header = ErrorHeader, !.body = <<body>>,
              !.trace = @ \o <<"WriteHeader">>,
              !.up = [Method |-> q.r.Method, URL |-> AnthropicAPIURL \o q.r.Path,
                      Header |-> NoHeader]]

\* http.Error(w, body, code) and the return that follows it: the response
\* is complete
HttpError(q, body, code) ==
    [q EXCEPT !.pc = "done", !.status = code, !.header = ErrorHeader, !.body = <<body>>,
              !.trace = @ \o <<"WriteHeader">>]

\* Plausible slip: the result of ValidateToken is not checked.
TokenRejected_never(valid) == FALSE

TokenRejected(valid) == ~valid

\* Plausible slip: the line names the token, not the agent.
RequestLogLine_withToken(r, info) ==
    <<"request", r.Method>> \o r.Path \o ExtractToken(r.Header)

\* log.Printf("[anthropic-proxy] %s %s (agent: %s)", r.Method, r.URL.Path,
\* tokenInfo.AgentName)
RequestLogLine(r, info) ==
    <<"request", r.Method>> \o r.Path \o <<IF info = NilInfo THEN "" ELSE info.AgentName>>

\* handleRequest up to the point where client.Do is called.
\* v is what ValidateToken returned, apiKey what GetAPIKey returns.
BeginRequest(r, v, apiKey) ==
    LET q0 == [IdleRequest EXCEPT !.r = r]
        token == ExtractToken(r.Header)
        q1 == [q0 EXCEPT !.token = token, !.valid = v.ok, !.info = v.info,
                         !.trace = <<IF v.ok THEN "ValidateToken:ok" ELSE "ValidateToken:fail">>]
        url == UpstreamURL(r)
    IN  IF r.Path = <<"/health">> \/ r.Path = <<"/_creddy/status">>
        THEN [q0 EXCEPT !.pc = "done"]
        ELSE IF token = EmptyStr
        THEN HttpError(q0, MissingAPIKey, StatusUnauthorized)
        ELSE IF TokenRejected(v.ok)
        THEN HttpError(q1, InvalidToken, StatusUnauthorized)
        ELSE LET q2 == [q1 EXCEPT !.log = <<RequestLogLine(r, v.info)>>]
             IN  IF NewRequestFails(url)
                 THEN HttpError(q2, InternalError, StatusInternalServerError)
                 ELSE [q2 EXCEPT !.pc = "forwarding",
                                 !.up = [Method |-> r.Method, URL |-> url,
                                         Header |-> UpstreamHeader(r.Header, apiKey)]]

\* ------------------------------------------------ sync.RWMutex and tasks
\* writer holds the lock for writing, readers hold it for reading; pending is
\* the goroutine whose Lock() has announced itself and waits for the readers
\* to leave.
Unlocked == [writer |-> 0, readers |-> {}, pending |-> 0]

\* Plausible slip: the write lock is not exclusive.
CanLock_always(m) == TRUE

\* Plausible slip: the write lock does not wait for the readers.
CanLock_ignoreReaders(m) == m.writer = 0

\* mu.Lock() returns only when no goroutine holds the lock in either mode.
CanLock(m) == m.writer = 0 /\ m.readers = {}

\* mu.RLock() returns only when no goroutine holds the write lock or has
\* announced a Lock(): readers that arrive behind a writer wait for it.
CanRLock(m) == m.writer = 0 /\ m.pending = 0

\* mu.Lock() announces itself when no other Lock() has (the writers' mutex).
CanAnnounce(m) == m.writer = 0 /\ m.pending = 0

TaskIds == 1..NTasks

\* Task i adds its own token, as the goroutines of TestTokenStore_Concurrent do.
TaskToken(i) == generateToken(ToString(i))
TaskInfo(i, t) == TokenInfo(ToString(i), "", "", TimeAdd(t, 1), t)

\* local is the map as the task read it, tok the task whose token it looks
\* up, expect whether that token's Add had returned when the lookup began,
\* res what Get returned.
\* op is the TokenStore method the task is in, when it calls any of the four.
\* Where the bodies of the methods run statement by statement: info is what
\* the map lookup of Get gave, at the time Cleanup read, keys the part of the
\* map its range loop has still to visit, removed its counter; added is the
\* record the task's last Add stored, until the task removes its token.
NewTask ==
    [pc |-> "start", local |-> NewTokenStore, tok |-> 0, expect |-> FALSE, res |-> FALSE,
     op |-> "", info |-> NilInfo, at |-> 0, keys |-> {}, removed |-> 0, added |-> NilInfo]

AddReturned(i) == task[i].pc \in {"added", "getLocked", "getRead"}

Op(op, token, ok, info, ret, err) ==
    [op |-> op, token |-> token, ok |-> ok, info |-> info, ret |-> ret, err |-> err]

Init ==
    /\ now = 0
    /\ config = NilConfig
    /\ tokens = NewTokenStore
    /\ proxy = FALSE
    /\ lastOp = Op("NewPlugin", EmptyStr, FALSE, NilInfo, 0, NilError)
    /\ req = IdleRequest
    /\ mu = Unlocked
    /\ task = [i \in TaskIds |-> NewTask]
    /\ plain = NewTokenStore

\* The wall clock advances.
Tick ==
    /\ now < MaxTime
    /\ now' = now + 1
    /\ lastOp' = Op("Tick", EmptyStr, FALSE, NilInfo, 0, NilError)
    /\ UNCHANGED <<plain, config, tokens, proxy, req, mu, task>>

Configure(configJSON) ==
    LET r == ConfigureResult(config, proxy, configJSON)
    IN  /\ config' = r.config
        /\ proxy' = r.proxy
        /\ lastOp' = Op("Configure", EmptyStr, r.starts, NilInfo, 0, r.err)
        /\ UNCHANGED <<plain, now, tokens, req, mu, task>>

\* Plausible slip: the credential handed out is the configured API key.
GetCredential_realKey(ttl, agent, scope, hex) ==
    IF config = NilConfig
    THEN /\ lastOp' = Op("GetCredential", EmptyStr, FALSE, NilInfo, 0, "plugin not configured")
         /\ UNCHANGED <<plain, now, config, tokens, proxy, req, mu, task>>
    ELSE LET token == generateToken(hex)
             expiresAt == TimeAdd(now, ttl)
             info == TokenInfo(agent.ID, agent.Name, scope, expiresAt, now)
         IN  /\ tokens' = Add(tokens, token, info)
             /\ lastOp' = Op("GetCredential", token, TRUE, info,
                            Credential(config.APIKey, expiresAt, token), NilError)
             /\ UNCHANGED <<plain, now, config, proxy, req, mu, task>>

GetCredential(ttl, agent, scope, hex) ==
    IF config = NilConfig
    THEN /\ lastOp' = Op("GetCredential", EmptyStr, FALSE, NilInfo, 0, "plugin not configured")
         /\ UNCHANGED <<plain, now, config, tokens, proxy, req, mu, task>>
    ELSE LET token == generateToken(hex)
             expiresAt == TimeAdd(now, ttl)
             info == TokenInfo(agent.ID, agent.Name, scope, expiresAt, now)
         IN  /\ tokens' = Add(tokens, token, info)
             /\ lastOp' = Op("GetCredential", token, TRUE, info,
                            Credential(token, expiresAt, token), NilError)
             /\ UNCHANGED <<plain, now, config, proxy, req, mu, task>>

\* Validate and GetAPIKey read the configuration under the plugin's read lock.
Validate ==
    /\ lastOp' = Op("Validate", EmptyStr, FALSE, NilInfo, 0, ValidateErr(config))
    /\ UNCHANGED <<plain, now, config, tokens, proxy, req, mu, task>>

GetAPIKeyCall ==
    /\ lastOp' = Op("GetAPIKey", GetAPIKey(config), FALSE, NilInfo, 0, NilError)
    /\ UNCHANGED <<plain, now, config, tokens, proxy, req, mu, task>>

RevokeCredential(externalID) ==
    LET r == RevokeCredentialResult(tokens, externalID)
    IN  /\ tokens' = r.tokens
        /\ lastOp' = Op("RevokeCredential", externalID, externalID \in DOMAIN tokens, NilInfo, 0, r.err)
        /\ UNCHANGED <<plain, now, config, proxy, req, mu, task>>

\* ValidateToken / TokenStore.Get called on its own.
TokenStoreGet(token) ==
    LET r == ValidateToken(tokens, token, now)
    IN  /\ tokens' = r.tokens
        /\ lastOp' = Op("Get", token, r.ok, r.info, 0, NilError)
        /\ UNCHANGED <<plain, now, config, proxy, req, mu, task>>

\* TokenStore.Add called on its own, with any record (expired ones included).
\* lastOp.ok tells whether the key was already in the map.
TokenStoreAdd(token, info) ==
    /\ tokens' = Add(tokens, token, info)
    /\ lastOp' = Op("Add", token, token \in DOMAIN tokens, info, 0, NilError)
    /\ UNCHANGED <<plain, now, config, proxy, req, mu, task>>

\* Add, Remove and Get called on two stores at the same time with the same
\* arguments: the store of the plugin, which cleanupLoop sweeps, and a store
\* made by NewTokenStore alone, which nothing sweeps.
PairAdd(token, info) ==
    /\ tokens' = Add(tokens, token, info)
    /\ plain' = Add(plain, token, info)
    /\ lastOp' = Op("Add", token, token \in DOMAIN tokens, info, 0, NilError)
    /\ UNCHANGED <<now, config, proxy, req, mu, task>>

PairRemove(token) ==
    /\ tokens' = Remove(tokens, token)
    /\ plain' = Remove(plain, token)
    /\ lastOp' = Op("Remove", token, token \in DOMAIN tokens, NilInfo, 0, NilError)
    /\ UNCHANGED <<now, config, proxy, req, mu, task>>

\* lastOp.ok and lastOp.info are what the swept store returned, lastOp.ret
\* what the other store returned.
PairGet(token) ==
    LET swept == Get(tokens, token, now)
        kept == Get(plain, token, now)
    IN  /\ tokens' = swept.tokens
        /\ plain' = kept.tokens
        /\ lastOp' = Op("Get", token, swept.ok, swept.info,
                       [ok |-> kept.ok, info |-> kept.info], NilError)
        /\ UNCHANGED <<now, config, proxy, req, mu, task>>

\* One firing of the ticker in cleanupLoop (also TokenStore.Cleanup on its own).
cleanupLoop ==
    LET r == Cleanup(tokens, now)
    IN  /\ tokens' = r.tokens
        /\ lastOp' = Op("Cleanup", EmptyStr, FALSE, NilInfo, r.removed, NilError)
        /\ UNCHANGED <<plain, now, config, proxy, req, mu, task>>

\* ------------------------------------------------------ requests served
ProxyOp == Op("proxy", EmptyStr, FALSE, NilInfo, 0, NilError)

\* mux: "/health" is routed to handleHealth
handleHealth(r) ==
    /\ proxy
    /\ req.pc \in {"idle", "done"}
    /\ r.Path = <<"/health">>
    /\ req' = [IdleRequest EXCEPT !.pc = "done", !.r = r, !.status = StatusOK,
                                  !.body = <<(<<"ok">>)>>, !.trace = <<"WriteHeader">>]
    /\ lastOp' = ProxyOp
    /\ UNCHANGED <<plain, now, config, tokens, proxy, mu, task>>

\* mux: every other path is routed to handleRequest
handleRequest(r) ==
    /\ proxy
    /\ req.pc \in {"idle", "done"}
    /\ r.Path # <<"/health">>
    /\ LET v == ValidateToken(tokens, ExtractToken(r.Header), now)
       IN  /\ req' = BeginRequest(r, v, GetAPIKey(config))
           /\ tokens' = IF ExtractToken(r.Header) = EmptyStr THEN tokens ELSE v.tokens
    /\ lastOp' = ProxyOp
    /\ UNCHANGED <<plain, now, config, proxy, mu, task>>

\* client.Do returns an error: 502
upstreamFails(text) ==
    /\ req.pc = "forwarding"
    /\ LET err == URLError(req.up.Method, req.up.URL, text)
       IN  req' = HttpError([req EXCEPT !.calls = @ + 1,
                                        !.trace = @ \o <<"client.Do">>,
                                        !.log = @ \o <<(<<"upstream error">> \o err)>>],
                            UpstreamError(err), StatusBadGateway)
    /\ lastOp' = ProxyOp
    /\ UNCHANGED <<plain, now, config, tokens, proxy, mu, task>>

\* Plausible slip: the content type is compared, not searched.
IsStreaming_exactMatch(resp) == HeaderGet(resp.Header, "Content-Type") = <<EventStream>>

\* isStreaming := strings.Contains(contentType, "text/event-stream")
IsStreaming(resp) == Contains(HeaderGet(resp.Header, "Content-Type"), EventStream)

\* Plausible slip: an upstream server error is answered as a gateway error.
RelayStatus_gatewayOn5xx(resp) ==
    IF resp.StatusCode >= 500 THEN StatusBadGateway ELSE resp.StatusCode

\* w.WriteHeader(upstreamResp.StatusCode), in either relay mode
RelayStatus(resp) == resp.StatusCode

\* client.Do returns a response: headers are copied; a plain body is copied
\* (n chunks of it get through before io.Copy stops), an event stream is
\* handed to handleStreaming, which writes its headers and the status.
upstreamResponds(resp, n) ==
    /\ req.pc = "forwarding"
    /\ n \in 0..Len(resp.Body)
    /\ LET copied == CopyResponseHeaders(resp.Header, DOMAIN resp.Header, req.header)
           isStreaming == IsStreaming(resp)
           q == [req EXCEPT !.calls = @ + 1, !.trace = @ \o <<"client.Do", "WriteHeader">>,
                            !.resp = resp, !.status = RelayStatus(resp)]
       IN  IF isStreaming
           THEN /\ n = 0
                /\ req' = [q EXCEPT !.pc = "streaming",
                             !.header = HeaderSet(HeaderSet(HeaderSet(HeaderSet(copied,
                                 "Content-Type", <<EventStream>>),
                                 "Cache-Control", <<"no-cache">>),
                                 "Connection", <<"keep-alive">>),
                                 "X-Accel-Buffering", <<"no">>),
                             !.rest = resp.Body]
           ELSE req' = [q EXCEPT !.pc = "done", !.header = copied,
                                 !.body = SubSeq(resp.Body, 1, n),
                                 !.rest = SubSeq(resp.Body, n + 1, Len(resp.Body)),
                                 !.closed = TRUE]
    /\ lastOp' = ProxyOp
    /\ UNCHANGED <<plain, now, config, tokens, proxy, mu, task>>

\* Plausible slip: the chunk is written but not flushed; the buffered chunks
\* reach the client when the handler returns.
RelayChunk_noFlush(q0, n, err, writeErr) ==
    LET chunk == SubSeq(q0.rest, 1, n)
        q == [q0 EXCEPT !.rest = SubSeq(@, n + 1, Len(@)), !.trace = @ \o <<"Read">>]
    IN  IF n > 0 /\ writeErr
        THEN [q EXCEPT !.pc = "done", !.closed = TRUE, !.trace = @ \o <<"Write:error", "return">>,
                       !.log = @ \o <<(<<"write error">>)>>]
        ELSE LET w == IF n > 0
                      THEN [q EXCEPT !.body = @ \o chunk, !.trace = @ \o <<"Write">>]
                      ELSE q
             IN  IF err # NilError
                 THEN [w EXCEPT !.pc = "done", !.closed = TRUE, !.flushed = Len(w.body),
                                !.trace = @ \o <<IF err = EOF THEN "Read:EOF" ELSE "Read:error",
                                                  "return">>,
                                !.log = IF err # EOF THEN @ \o <<(<<"read error", err>>)>> ELSE @]
                 ELSE w

\* Plausible slip: the loop goes on after a failed write to the client.
RelayChunk_ignoreWriteError(q0, n, err, writeErr) ==
    LET chunk == SubSeq(q0.rest, 1, n)
        q == [q0 EXCEPT !.rest = SubSeq(@, n + 1, Len(@)), !.trace = @ \o <<"Read">>]
        w == IF n > 0 /\ writeErr
             THEN [q EXCEPT !.trace = @ \o <<"Write:error">>,
                            !.log = @ \o <<(<<"write error">>)>>]
             ELSE IF n > 0
             THEN [q EXCEPT !.body = @ \o chunk, !.flushed = Len(q.body) + n,
                            !.trace = @ \o <<"Write", "Flush">>]
             ELSE q
    IN  IF err # NilError
        THEN [w EXCEPT !.pc = "done", !.closed = TRUE,
                       !.trace = @ \o <<IF err = EOF THEN "Read:EOF" ELSE "Read:error", "return">>,
                       !.log = IF err # EOF THEN @ \o <<(<<"read error", err>>)>> ELSE @]
        ELSE w

\* Plausible slip: the error of Read is looked at before the bytes that came
\* with it are written.
RelayChunk_errFirst(q0, n, err, writeErr) ==
    LET chunk == SubSeq(q0.rest, 1, n)
        q == [q0 EXCEPT !.rest = SubSeq(@, n + 1, Len(@)), !.trace = @ \o <<"Read">>]
    IN  IF err # NilError
        THEN [q EXCEPT !.pc = "done", !.closed = TRUE,
                       !.trace = @ \o <<IF err = EOF THEN "Read:EOF" ELSE "Read:error", "return">>,
                       !.log = IF err # EOF THEN @ \o <<(<<"read error", err>>)>> ELSE @]
        ELSE IF n > 0 /\ writeErr
        THEN [q EXCEPT !.pc = "done", !.closed = TRUE, !.trace = @ \o <<"Write:error", "return">>,
                       !.log = @ \o <<(<<"write error">>)>>]
        ELSE IF n > 0
        THEN [q EXCEPT !.body = @ \o chunk, !.flushed = Len(q.body) + n,
                       !.trace = @ \o <<"Write", "Flush">>]
        ELSE q

\* One iteration of the relay loop of handleStreaming on request q0: Read
\* returns n chunks (0 or 1) and err; the write to the client fails when
\* writeErr. body is what was written to the client, flushed how many of the
\* chunks written the client has received; the body of the upstream response
\* is closed when the handler returns.
RelayChunk(q0, n, err, writeErr) ==
    LET chunk == SubSeq(q0.rest, 1, n)
        q == [q0 EXCEPT !.rest = SubSeq(@, n + 1, Len(@)), !.trace = @ \o <<"Read">>]
    IN  IF n > 0 /\ writeErr
        THEN [q EXCEPT !.pc = "done", !.closed = TRUE, !.trace = @ \o <<"Write:error", "return">>,
                       !.log = @ \o <<(<<"write error">>)>>]
        ELSE LET w == IF n > 0
                      THEN [q EXCEPT !.body = @ \o chunk, !.flushed = Len(q.body) + n,
                                     !.trace = @ \o <<"Write", "Flush">>]
                      ELSE q
             IN  IF err # NilError
                 THEN [w EXCEPT !.pc = "done", !.closed = TRUE,
                                !.trace = @ \o <<IF err = EOF THEN "Read:EOF" ELSE "Read:error",
                                                  "return">>,
                                !.log = IF err # EOF THEN @ \o <<(<<"read error", err>>)>> ELSE @]
                 ELSE w

\* Plausible slip: the relay loop validates the token again at every
\* iteration and stops the stream when it is gone.
handleStreaming_recheck(n, err, writeErr) ==
    /\ req.pc = "streaming"
    /\ n \in 0..1 /\ n <= Len(req.rest)
    /\ (n = 0) => (err # NilError /\ ~writeErr)
    /\ (err = EOF) => (n = Len(req.rest))
    /\ req' = IF ValidateToken(tokens, req.token, now).ok
              THEN RelayChunk(req, n, err, writeErr)
              ELSE [req EXCEPT !.pc = "done", !.closed = TRUE,
                               !.trace = @ \o <<"ValidateToken:fail", "return">>]
    /\ lastOp' = Op("proxy", EmptyStr, FALSE, NilInfo, 0, NilError)
    /\ UNCHANGED <<plain, now, config, tokens, proxy, mu, task>>

handleStreaming(n, err, writeErr) ==
    /\ req.pc = "streaming"
    /\ n \in 0..1 /\ n <= Len(req.rest)
    /\ (n = 0) => (err # NilError /\ ~writeErr)
    /\ (err = EOF) => (n = Len(req.rest))
    /\ req' = RelayChunk(req, n, err, writeErr)
    /\ lastOp' = ProxyOp
    /\ UNCHANGED <<plain, now, config, tokens, proxy, mu, task>>

\* The timer of the client fires while the upstream call is in progress:
\* client.Do returns the error when the headers have not arrived, the next
\* Body.Read of the relay loop returns it when they have.
clientTimeout ==
    /\ NewClient.Timeout > 0
    /\ \/ upstreamFails(TimeoutAwaitingHeaders)
       \/ handleStreaming(0, TimeoutReadingBody, FALSE)

\* ------------------------------------------------ token issuance endpoint
\* Where the clock is read in ticks, a second is TicksPerSecond of them.
Second == TicksPerSecond
Hour == 3600 * Second

\* time.ParseDuration on the ttl strings clients send
ParseDuration(str) ==
    CASE str = "1s" -> [err |-> NilError, d |-> Second]
      [] str = "1h" -> [err |-> NilError, d |-> Hour]
      [] str = "24h" -> [err |-> NilError, d |-> 24 * Hour]
      [] str = "48h" -> [err |-> NilError, d |-> 48 * Hour]
      [] str = "-1h" -> [err |-> NilError, d |-> 0 - Hour]
      [] str = "0s" -> [err |-> NilError, d |-> 0]
      [] OTHER -> [err |-> "time: invalid duration", d |-> 0]

\* time.Duration.String
DurationString(d) ==
    CASE d = Second -> "1s"
      [] d = Hour -> "1h0m0s"
      [] d = 24 * Hour -> "24h0m0s"
      [] d = 48 * Hour -> "48h0m0s"
      [] d = 0 - Hour -> "-1h0m0s"
      [] d = 0 -> "0s"

\* time.Time.Format(time.RFC3339): the instant to the whole second, the
\* fraction of the second dropped. The text stands for that second.
FormatRFC3339(t) == [second |-> t \div Second]

\* time.Parse(time.RFC3339, text), as a client reads expires_at
ParseRFC3339(text) == text.second * Second

\* Plausible slip: the ttl is not capped.
CapTTL_none(ttl) == ttl

\* Cap TTL at 24h
CapTTL(ttl) == IF ttl > 24 * Hour THEN 24 * Hour ELSE ttl

\* The request bodies of POST /v1/tokens: no JSON, or the two fields
\* (a field that is left out decodes as "").
IssueBodies ==
    {[valid |-> FALSE, ttl |-> "", agent_name |-> ""]}
    \cup {[valid |-> TRUE, ttl |-> t, agent_name |-> a] :
            t \in {"", "1h", "24h", "48h", "-1h", "0s", "soon"}, a \in {"my-agent"}}

\* json.NewDecoder(r.Body).Decode(&req), with the defaults on error
DecodeIssueRequest(body) ==
    IF ~body.valid THEN [TTL |-> "1h", AgentName |-> "anonymous"]
    ELSE [TTL |-> body.ttl, AgentName |-> body.agent_name]

\* The ttl handleIssueToken issues for a request body
IssueTTL(body) ==
    LET p == ParseDuration(DecodeIssueRequest(body).TTL)
    IN  CapTTL(IF p.err # NilError THEN 1 * Hour ELSE p.d)

IssueRequest(method, body) ==
    [Method |-> method, EscapedPath |-> <<"/v1/tokens">>, Path |-> <<"/v1/tokens">>,
     RawQuery |-> EmptyStr, Host |-> EmptyStr, Header |-> NoHeader, Body |-> body]

\* handleIssueToken: hex is what generateToken draws, genErr whether it fails.
handleIssueToken(method, body, hex, genErr) ==
    /\ proxy
    /\ req.pc \in {"idle", "done"}
    /\ LET q0 == [IdleRequest EXCEPT !.r = IssueRequest(method, body)]
           decoded == DecodeIssueRequest(body)
           ttl == IssueTTL(body)
           token == generateToken(hex)
           expiresAt == TimeAdd(now, ttl)
           info == TokenInfo("", decoded.AgentName, "anthropic", expiresAt, now)
       IN  IF method # "POST"
           THEN /\ req' = HttpError(q0, <<"{", Quote, "error", Quote, ":", Quote,
                                         "method not allowed", Quote, "}">>,
                                    StatusMethodNotAllowed)
                /\ lastOp' = Op("IssueToken", EmptyStr, FALSE, NilInfo, 0, "method not allowed")
                /\ UNCHANGED tokens
           ELSE IF genErr
           THEN /\ req' = HttpError(q0, <<"{", Quote, "error", Quote, ":", Quote,
                                         "failed to generate token", Quote, "}">>,
                                    StatusInternalServerError)
                /\ lastOp' = Op("IssueToken", EmptyStr, FALSE, NilInfo, 0,
                               "failed to generate token")
                /\ UNCHANGED tokens
           ELSE LET answer == [token |-> token, expires_at |-> FormatRFC3339(expiresAt),
                               ttl |-> DurationString(ttl)]
                IN  /\ tokens' = Add(tokens, token, info)
                    /\ req' = [q0 EXCEPT !.pc = "done", !.status = StatusOK,
                                         !.header = HeaderSet(NoHeader, "Content-Type",
                                                              <<"application/json">>),
                                         !.body = <<answer>>,
                                         !.trace = <<"Add", "WriteHeader">>,
                                         !.log = <<(<<"issued", decoded.AgentName,
                                                      DurationString(ttl)>>)>>]
                    /\ lastOp' = Op("IssueToken", token, TRUE, info, answer, NilError)
    /\ UNCHANGED <<plain, now, config, proxy, mu, task>>

\* ------------------------------------------- TokenStore under concurrency
\* TokenStore.Add in task i: Lock, the map assignment (the map is read and
\* the new map written), Unlock.
AddLock(i) ==
    /\ task[i].pc = "start"
    /\ CanLock(mu)
    /\ mu' = [mu EXCEPT !.writer = i]
    /\ task' = [task EXCEPT ![i].pc = "addLocked"]
    /\ UNCHANGED <<plain, now, config, tokens, proxy, lastOp, req>>

AddLoad(i) ==
    /\ task[i].pc = "addLocked"
    /\ task' = [task EXCEPT ![i].pc = "addLoaded", ![i].local = tokens]
    /\ UNCHANGED <<plain, now, config, tokens, proxy, lastOp, req, mu>>

AddStore(i) ==
    /\ task[i].pc = "addLoaded"
    /\ tokens' = Add(task[i].local, TaskToken(i), TaskInfo(i, now))
    /\ task' = [task EXCEPT ![i].pc = "addStored"]
    /\ UNCHANGED <<plain, now, config, proxy, lastOp, req, mu>>

AddUnlock(i) ==
    /\ task[i].pc = "addStored"
    /\ mu' = [mu EXCEPT !.writer = IF @ = i THEN 0 ELSE @]
    /\ task' = [task EXCEPT ![i].pc = "added"]
    /\ UNCHANGED <<plain, now, config, tokens, proxy, lastOp, req>>

\* TokenStore.Get in task i for the token of task j: RLock, lookup, RUnlock.
GetRLock(i, j) ==
    /\ task[i].pc = "added"
    /\ CanRLock(mu)
    /\ mu' = [mu EXCEPT !.readers = @ \cup {i}]
    /\ task' = [task EXCEPT ![i].pc = "getLocked", ![i].tok = j,
                            ![i].expect = AddReturned(j), ![i].res = FALSE]
    /\ UNCHANGED <<plain, now, config, tokens, proxy, lastOp, req>>

GetRead(i) ==
    /\ task[i].pc = "getLocked"
    /\ task' = [task EXCEPT ![i].pc = "getRead",
                            ![i].res = Get(tokens, TaskToken(task[i].tok), now).ok]
    /\ UNCHANGED <<plain, now, config, tokens, proxy, lastOp, req, mu>>

GetRUnlock(i) ==
    /\ task[i].pc = "getRead"
    /\ mu' = [mu EXCEPT !.readers = @ \ {i}]
    /\ task' = [task EXCEPT ![i].pc = "added"]
    /\ UNCHANGED <<plain, now, config, tokens, proxy, lastOp, req>>

\* Any of the four TokenStore methods in task i, on the task's own token:
\* the call arrives at mu.Lock() (mu.RLock() in Get), the lock is taken, the
\* body runs, and the deferred Unlock (RUnlock) releases the lock.
StoreOps == {"Add", "Get", "Remove", "Cleanup"}
Mutations == {"Add", "Remove", "Cleanup"}

StoreCall(i, op) ==
    /\ task[i].pc = "start"
    /\ task' = [task EXCEPT ![i].pc = "waiting", ![i].op = op, ![i].tok = i]
    /\ UNCHANGED <<plain, now, config, tokens, proxy, lastOp, req, mu>>

\* Lock() in task i takes the writers' mutex and announces itself: from now
\* on RLock() blocks.
StoreAnnounce(i) ==
    /\ task[i].pc = "waiting"
    /\ task[i].op \in Mutations
    /\ CanAnnounce(mu)
    /\ mu' = [mu EXCEPT !.pending = i]
    /\ task' = [task EXCEPT ![i].pc = "announced"]
    /\ UNCHANGED <<plain, now, config, tokens, proxy, lastOp, req>>

\* RLock() returns in task i, or the announced Lock() does.
StoreLock(i) ==
    /\ IF task[i].op = "Get"
       THEN /\ task[i].pc = "waiting"
            /\ CanRLock(mu)
            /\ mu' = [mu EXCEPT !.readers = @ \cup {i}]
       ELSE /\ task[i].pc = "announced"
            /\ CanLock(mu)
            /\ mu' = [mu EXCEPT !.writer = i, !.pending = 0]
    /\ task' = [task EXCEPT ![i].pc = "locked"]
    /\ UNCHANGED <<plain, now, config, tokens, proxy, lastOp, req>>

StoreBody(i) ==
    /\ task[i].pc = "locked"
    /\ tokens' = CASE task[i].op = "Add" -> Add(tokens, TaskToken(i), TaskInfo(i, now))
                   [] task[i].op = "Remove" -> Remove(tokens, TaskToken(i))
                   [] task[i].op = "Cleanup" -> Cleanup(tokens, now).tokens
                   [] task[i].op = "Get" -> Get(tokens, TaskToken(i), now).tokens
    /\ task' = [task EXCEPT ![i].pc = "unlocking",
                            ![i].res = IF task[i].op = "Get"
                                       THEN Get(tokens, TaskToken(i), now).ok ELSE @]
    /\ UNCHANGED <<plain, now, config, proxy, lastOp, req, mu>>

\* The readers blocked in RLock() behind a writer
BlockedReaders == {k \in TaskIds : task[k].pc = "waiting" /\ task[k].op = "Get"}

\* RUnlock() leaves; Unlock() leaves and lets in the readers that were
\* blocked behind the writer. The method returns, its locals are gone.
StoreUnlock(i) ==
    /\ task[i].pc = "unlocking"
    /\ IF task[i].op = "Get"
       THEN /\ mu' = [mu EXCEPT !.readers = @ \ {i}]
            /\ task' = [task EXCEPT ![i] = [NewTask EXCEPT !.added = task[i].added]]
       ELSE /\ mu' = [mu EXCEPT !.writer = IF @ = i THEN 0 ELSE @,
                                !.readers = @ \cup BlockedReaders]
            /\ task' = [k \in TaskIds |->
                           IF k = i THEN [NewTask EXCEPT !.added = task[i].added]
                           ELSE IF k \in BlockedReaders THEN [task[k] EXCEPT !.pc = "locked"]
                           ELSE task[k]]
    /\ UNCHANGED <<plain, now, config, tokens, proxy, lastOp, req>>

\* The bodies of the methods, statement by statement, in the goroutine that
\* holds the lock. A task adds, looks up and removes its own token; any task
\* can be the one in which the ticker of cleanupLoop fires.
\* Plausible slip: Cleanup deletes a record at its expiry time already.
Expired_atExpiry(info, t) == ~(t < info.ExpiresAt)

\* now.After(info.ExpiresAt), as Get and Cleanup test it
Expired(info, t) == After(t, info.ExpiresAt)

\* A record no Add stored: what a lookup can give while the map is written.
TornInfo == [torn |-> TRUE]

\* s.tokens[token] = info / delete(s.tokens, token)
MutateBody(i) ==
    /\ task[i].pc = "locked"
    /\ task[i].op \in {"Add", "Remove"}
    /\ LET info == TaskInfo(i, now)
       IN  IF task[i].op = "Add"
           THEN /\ tokens' = Add(tokens, TaskToken(i), info)
                /\ task' = [task EXCEPT ![i].pc = "unlocking", ![i].added = info]
           ELSE /\ tokens' = Remove(tokens, TaskToken(i))
                /\ task' = [task EXCEPT ![i].pc = "unlocking", ![i].added = NilInfo]
    /\ UNCHANGED <<plain, now, config, proxy, lastOp, req, mu>>

\* info, ok := s.tokens[token]: a lookup made while another goroutine is
\* inside a mutation is a data race, and can give anything.
GetLookup(i) ==
    /\ task[i].pc = "locked"
    /\ task[i].op = "Get"
    /\ LET token == TaskToken(i)
           found == IF token \in DOMAIN tokens THEN tokens[token] ELSE NilInfo
       IN  \E info \in (IF mu.writer # 0 THEN {found, NilInfo, TornInfo} ELSE {found}) :
              task' = [task EXCEPT ![i].pc = "looked", ![i].info = info]
    /\ UNCHANGED <<plain, now, config, tokens, proxy, lastOp, req, mu>>

\* if !ok / if time.Now().After(info.ExpiresAt): return nil, false
GetCheck(i) ==
    /\ task[i].pc = "looked"
    /\ LET ok == task[i].info # NilInfo /\ (task[i].info = TornInfo \/ ~Expired(task[i].info, now))
       IN  task' = [task EXCEPT ![i].pc = "unlocking", ![i].res = ok,
                                ![i].info = IF ok THEN @ ELSE NilInfo]
    /\ UNCHANGED <<plain, now, config, tokens, proxy, lastOp, req, mu>>

\* now := time.Now(); removed := 0; the range loop begins
CleanupBegin(i) ==
    /\ task[i].pc = "locked"
    /\ task[i].op = "Cleanup"
    /\ task' = [task EXCEPT ![i].pc = "sweeping", ![i].at = now, ![i].keys = DOMAIN tokens,
                            ![i].removed = 0]
    /\ UNCHANGED <<plain, now, config, tokens, proxy, lastOp, req, mu>>

\* One iteration of the range loop, in the order the map gives; after the
\* last one Cleanup returns.
CleanupVisit(i) ==
    /\ task[i].pc = "sweeping"
    /\ IF task[i].keys = {}
       THEN /\ task' = [task EXCEPT ![i].pc = "unlocking"]
            /\ UNCHANGED tokens
       ELSE \E token \in task[i].keys :
              IF token \in DOMAIN tokens /\ Expired(tokens[token], task[i].at)
              THEN /\ tokens' = MapDelete(tokens, token)
                   /\ task' = [task EXCEPT ![i].keys = @ \ {token}, ![i].removed = @ + 1]
              ELSE /\ task' = [task EXCEPT ![i].keys = @ \ {token}]
                   /\ UNCHANGED tokens
    /\ UNCHANGED <<plain, now, config, proxy, lastOp, req, mu>>

\* ------------------------------------------------------------ input sets
IssuedTokens == {generateToken(h) : h \in HexPool}

TokenA == generateToken("a")
TokenB == generateToken("b")

\* Header lines other than the credential: the hop-by-hop headers in the
\* spellings clients use, the host, a header with two values.
OtherHeaders ==
    [k \in {"connection", "Keep-Alive", "PROXY-AUTHENTICATE", "proxy-authorization", "TE",
            "trailers", "Transfer-Encoding", "UPGRADE", "host",
            "anthropic-version", "anthropic-beta", "content-type"} |->
        CASE k = "connection" -> <<(<<"keep-alive">>)>>
          [] k = "anthropic-version" -> <<(<<"2023-01-01">>)>>
          [] k = "anthropic-beta" -> <<(<<"b1">>), (<<"b2">>)>>
          [] k = "content-type" -> <<(<<"application/json">>)>>
          [] k = "host" -> <<(<<"localhost:8401">>)>>
          [] OTHER -> <<(<<"h">>)>>]

Authorization(v) == [k \in {"Authorization"} |-> <<v>>]
XApiKey(v) == [k \in {"x-api-key"} |-> <<v>>]

\* Header lines as clients send them: no credential, either header, both,
\* an empty value, a bearer prefix with nothing behind it.
WireHeaders ==
    {NoHeader,
     OtherHeaders,
     XApiKey(TokenA),
     XApiKey(TokenA) @@ OtherHeaders,
     XApiKey(TokenB),
     XApiKey(<<"not-a-valid-token">>),
     XApiKey(EmptyStr),
     Authorization(BearerPrefix \o TokenA),
     Authorization(BearerPrefix \o TokenA) @@ OtherHeaders,
     Authorization(TokenA),
     Authorization(BearerPrefix) @@ XApiKey(TokenA),
     Authorization(BearerPrefix \o TokenA) @@ XApiKey(TokenB),
     Authorization(BearerPrefix \o TokenB) @@ XApiKey(TokenA)}

\* The request as the server hands it to the handler: path is the path of the
\* request line; the Host line is moved out of the header map.
Request(method, path, query, wire) ==
    LET h == ReadHeader(wire, DOMAIN wire, NoHeader)
    IN  [Method |-> method, EscapedPath |-> path, Path |-> PathUnescape(path),
         RawQuery |-> query, Host |-> HeaderGet(h, "Host"), Header |-> MapDelete(h, "Host")]

Requests ==
    {Request("POST", <<"/v1/messages">>, EmptyStr, w) : w \in WireHeaders}
    \cup {Request("GET", p, <<"limit=1">>, [k \in {"x-api-key"} |-> <<generateToken("a")>>]) :
            p \in {<<"/health">>, <<"/v1/models">>, <<"/v1/", "%25zz">>,
                   <<"/v1/files/a", "%2F", "b">>}}

\* Responses of the upstream, as the client hands them to the handler (header
\* names in canonical form): hop-by-hop headers, a header with two values.
Response(status, ctype, body) ==
    [StatusCode |-> status,
     Header |-> [k \in {"Content-Type", "Connection", "Keep-Alive", "Transfer-Encoding",
                        "Cache-Control", "Request-Id", "Vary"} |->
                    CASE k = "Content-Type" -> <<ctype>>
                      [] k = "Connection" -> <<(<<"close">>)>>
                      [] k = "Keep-Alive" -> <<(<<"timeout=5">>)>>
                      [] k = "Transfer-Encoding" -> <<(<<"chunked">>)>>
                      [] k = "Cache-Control" -> <<(<<"private">>)>>
                      [] k = "Request-Id" -> <<(<<"req_1">>)>>
                      [] k = "Vary" -> <<(<<"Accept">>), (<<"Origin">>)>>],
     Body |-> body]

Responses ==
    {Response(200, <<"application/json">>, <<"j1">>),
     Response(400, <<"application/json">>, <<"j1">>),
     Response(200, <<EventStream, "; charset=utf-8">>, <<"e1", "e2">>)}

ReadErrors == {NilError, EOF, "unexpected EOF"}

\* Responses of every class of status, the upstream's own 502 included, as
\* plain bodies and as event streams.
StatusResponses ==
    {Response(st, ct, <<"b1", "b2">>) :
        st \in {200, 201, 400, 404, 429, 500, 502, 529},
        ct \in {<<"application/json">>, <<EventStream>>}}

\* --------------------------------------------------------- specifications
Time == Tick

Plugin ==
    \/ \E c \in ConfigInputs : Configure(c)
    \/ \E ttl \in TTLSet, a \in Agents, sc \in Scopes, h \in HexPool : GetCredential(ttl, a, sc, h)
    \/ \E id \in TokenStrings : RevokeCredential(id)
    \/ cleanupLoop
    \/ Validate
    \/ GetAPIKeyCall

Store ==
    \/ \E t \in TokenStrings : TokenStoreGet(t)
    \/ \E t \in IssuedTokens, a \in Agents, sc \in Scopes, ttl \in TTLSet :
          TokenStoreAdd(t, TokenInfo(a.ID, a.Name, sc, TimeAdd(now, ttl), now))

\* The token store and the plugin API, called directly.
NextStore == Time \/ Plugin \/ Store

SpecStore == Init /\ [][NextStore]_vars

\* The proxy, with issuance, revocation and cleanup going on around it.
ProxyPlugin ==
    \/ \E c \in {c \in ConfigInputs : c.proxy_port = 0 /\ c.api_key # <<"sk-ant-", "y">>} :
          Configure(c)
    \/ \E ttl \in {0, 1}, a \in {CHOOSE a \in Agents : TRUE}, sc \in Scopes, h \in {"a"} :
          GetCredential(ttl, a, sc, h)
    \/ \E id \in {TokenA} : RevokeCredential(id)
    \/ cleanupLoop

Serve ==
    \/ \E r \in Requests : handleHealth(r)
    \/ \E r \in Requests : handleRequest(r)
    \/ \E text \in {<<"dial tcp: connect: connection refused">>} : upstreamFails(text)
    \/ \E resp \in Responses, n \in 0..1 : upstreamResponds(resp, n)
    \/ \E n \in 0..1, err \in ReadErrors, writeErr \in BOOLEAN : handleStreaming(n, err, writeErr)

Next == Time \/ ProxyPlugin \/ Serve

Spec == Init /\ [][Next]_vars

\* Requests that differ in the credential only, with and without the other
\* header lines, against a store in which the token expires and is revoked.
AuthRequests ==
    {Request("POST", <<"/v1/messages">>, EmptyStr, w) :
        w \in {XApiKey(t) : t \in {TokenA, TokenB, <<"not-a-valid-token">>}}
              \cup {Authorization(BearerPrefix \o t) : t \in {TokenA, <<"sk-ant-fake-token">>}}
              \cup {XApiKey(t) @@ OtherHeaders : t \in {TokenA, TokenB}}}

NextAuth ==
    \/ Tick
    \/ \E c \in {c \in ConfigInputs : c.valid /\ c.proxy_port = 0 /\ c.api_key = <<"sk-ant-", "x">>} :
          Configure(c)
    \/ \E ttl \in {0, 1}, a \in {CHOOSE a \in Agents : TRUE}, sc \in Scopes, h \in {"a"} :
          GetCredential(ttl, a, sc, h)
    \/ \E id \in {TokenA} : RevokeCredential(id)
    \/ cleanupLoop
    \/ \E r \in AuthRequests : handleRequest(r)
    \/ \E text \in {<<"dial tcp: connect: connection refused">>} : upstreamFails(text)
    \/ \E resp \in {Response(200, <<"application/json">>, <<"j1">>)} : upstreamResponds(resp, 1)

SpecAuth == Init /\ [][NextAuth]_vars

\* Requests served while the upstream is slow, fails or never answers; the
\* runtime fires the client's timer.
LiveRequests ==
    {Request("POST", <<"/v1/messages">>, EmptyStr, w) :
        w \in {XApiKey(TokenA), XApiKey(TokenB),
               Authorization(BearerPrefix \o TokenA) @@ OtherHeaders}}

NextLive ==
    \/ Tick
    \/ \E c \in {c \in ConfigInputs : c.valid /\ c.proxy_port = 0 /\ c.api_key = <<"sk-ant-", "x">>} :
          Configure(c)
    \/ \E ttl \in {1}, a \in {CHOOSE a \in Agents : TRUE}, sc \in Scopes, h \in {"a"} :
          GetCredential(ttl, a, sc, h)
    \/ \E r \in LiveRequests : handleRequest(r)
    \/ \E text \in {<<"dial tcp: connect: connection refused">>} : upstreamFails(text)
    \/ \E resp \in Responses, n \in 0..1 : upstreamResponds(resp, n)
    \/ \E n \in 0..1, err \in ReadErrors, writeErr \in BOOLEAN : handleStreaming(n, err, writeErr)
    \/ clientTimeout

SpecLive == Init /\ [][NextLive]_vars /\ WF_vars(clientTimeout)

\* The proxy with the issuance endpoint: tokens are issued over HTTP, looked
\* up and cleaned up, while the clock advances in fractions of a second.
NextIssue ==
    \/ Tick
    \/ \E c \in {c \in ConfigInputs : c.valid /\ c.proxy_port = 0 /\ c.api_key = <<"sk-ant-", "x">>} :
          Configure(c)
    \/ \E body \in IssueBodies, h \in HexPool : handleIssueToken("POST", body, h, FALSE)
    \/ \E body \in {b \in IssueBodies : b.ttl = "1h"} :
          \/ handleIssueToken("POST", body, "a", TRUE)
          \/ handleIssueToken("GET", body, "a", FALSE)
    \/ \E ttl \in {0 - Second, 0, Hour}, a \in {CHOOSE a \in Agents : TRUE}, sc \in Scopes, h \in {"a"} :
          GetCredential(ttl, a, sc, h)
    \/ \E t \in IssuedTokens : TokenStoreGet(t)
    \/ cleanupLoop

SpecIssue == Init /\ [][NextIssue]_vars

\* Concurrent Adds of distinct tokens, each followed by concurrent Gets.
NextConc ==
    \E i \in TaskIds :
        \/ AddLock(i)
        \/ AddLoad(i)
        \/ AddStore(i)
        \/ AddUnlock(i)
        \/ \E j \in TaskIds : GetRLock(i, j)
        \/ GetRead(i)
        \/ GetRUnlock(i)

SpecConc == Init /\ [][NextConc]_vars

\* Goroutines calling the four TokenStore methods over and over. The runtime
\* runs every goroutine that can run, and the writers' mutex of sync.RWMutex
\* hands itself to each waiting writer in turn (it does not starve a waiter).
NextLock ==
    \E i \in TaskIds :
        \/ \E op \in StoreOps : StoreCall(i, op)
        \/ StoreAnnounce(i)
        \/ StoreLock(i)
        \/ StoreBody(i)
        \/ StoreUnlock(i)

SpecLock ==
    /\ Init
    /\ [][NextLock]_vars
    /\ \A i \in TaskIds :
          /\ SF_vars(StoreAnnounce(i))
          /\ WF_vars(StoreLock(i)) /\ WF_vars(StoreBody(i)) /\ WF_vars(StoreUnlock(i))

\* Cleanup sweeping while goroutines add, look up and remove their tokens and
\* the clock advances.
NextSweep ==
    \/ Tick
    \/ \E i \in TaskIds :
          \/ \E op \in StoreOps : StoreCall(i, op)
          \/ StoreAnnounce(i)
          \/ StoreLock(i)
          \/ MutateBody(i)
          \/ GetLookup(i)
          \/ GetCheck(i)
          \/ CleanupBegin(i)
          \/ CleanupVisit(i)
          \/ StoreUnlock(i)

SpecSweep == Init /\ [][NextSweep]_vars

\* The plugin made by NewPlugin: tokens are issued (some expired from the
\* start), looked up and revoked while the clock advances, and the ticker of
\* cleanupLoop fires again and again for as long as the process runs. The 24
\* random bytes of a new token are not those of a token in the store.
NextExpire ==
    \/ Tick
    \/ \E c \in {c \in ConfigInputs : c.valid /\ c.proxy_port = 0 /\ c.api_key = <<"sk-ant-", "x">>} :
          Configure(c)
    \/ \E ttl \in TTLSet, a \in {CHOOSE a \in Agents : TRUE}, sc \in Scopes,
          h \in {h \in HexPool : generateToken(h) \notin DOMAIN tokens} :
          GetCredential(ttl, a, sc, h)
    \/ \E id \in {TokenA} : RevokeCredential(id)
    \/ \E t \in IssuedTokens : TokenStoreGet(t)
    \/ cleanupLoop

SpecExpire == Init /\ [][NextExpire]_vars /\ WF_vars(cleanupLoop)

\* Requests in flight while their token expires, is revoked and is swept.
NextFlight ==
    \/ Tick
    \/ \E c \in {c \in ConfigInputs : c.valid /\ c.proxy_port = 0 /\ c.api_key = <<"sk-ant-", "x">>} :
          Configure(c)
    \/ \E ttl \in {0, 1}, a \in {CHOOSE a \in Agents : TRUE}, sc \in Scopes, h \in {"a"} :
          GetCredential(ttl, a, sc, h)
    \/ \E id \in {TokenA} : RevokeCredential(id)
    \/ cleanupLoop
    \/ \E r \in LiveRequests : handleRequest(r)
    \/ \E text \in {<<"dial tcp: connect: connection refused">>} : upstreamFails(text)
    \/ \E resp \in Responses, n \in 0..1 : upstreamResponds(resp, n)
    \/ \E n \in 0..1, err \in ReadErrors, writeErr \in BOOLEAN : handleStreaming(n, err, writeErr)

SpecFlight == Init /\ [][NextFlight]_vars

\* Any sequence of Add, Remove and Get on the two stores while the clock
\* advances, with sweeps of the first store at any point.
NextPair ==
    \/ Tick
    \/ \E t \in IssuedTokens, a \in Agents, sc \in Scopes, ttl \in TTLSet :
          PairAdd(t, TokenInfo(a.ID, a.Name, sc, TimeAdd(now, ttl), now))
    \/ \E t \in IssuedTokens : PairRemove(t)
    \/ \E t \in TokenStrings : PairGet(t)
    \/ cleanupLoop

SpecPair == Init /\ [][NextPair]_vars

\* The upstream answers with any status, or not at all.
NextStatus ==
    \/ \E c \in {c \in ConfigInputs : c.valid /\ c.proxy_port = 0 /\ c.api_key = <<"sk-ant-", "x">>} :
          Configure(c)
    \/ \E ttl \in {1}, a \in {CHOOSE a \in Agents : TRUE}, sc \in Scopes, h \in {"a"} :
          GetCredential(ttl, a, sc, h)
    \/ \E r \in LiveRequests : handleRequest(r)
    \/ \E text \in {<<"dial tcp: connect: connection refused">>} : upstreamFails(text)
    \/ \E resp \in StatusResponses, n \in 0..2 : upstreamResponds(resp, n)
    \/ \E n \in 0..1, err \in ReadErrors, writeErr \in BOOLEAN : handleStreaming(n, err, writeErr)

SpecStatus == Init /\ [][NextStatus]_vars

\* ------------------------------------------------------------ properties
\* v carries token: v is token, or token with something around it
Carries(v, token) ==
    /\ token # EmptyStr
    /\ \E i \in 0..(Len(v) - Len(token)) : SubSeq(v, i + 1, i + Len(token)) = token

HeaderCarries(h, key, token) ==
    key \in DOMAIN h /\ \E i \in 1..Len(h[key]) : Carries(h[key][i], token)

\* The request in req was served by handleRequest (not by handleHealth).
Proxied == req.r # NoRequest /\ req.r.Path # <<"/health">>

\* C1: a proxied request whose token ValidateToken found is sent upstream
\* with exactly the configured secret in X-Api-Key, and neither X-Api-Key
\* nor Authorization of the upstream request carries the inbound token.
C1_SecretInjected ==
    (Proxied /\ req.up # NoRequest) =>
        /\ req.valid
        /\ GetAPIKey(config) # EmptyStr
        /\ "X-Api-Key" \in DOMAIN req.up.Header
        /\ req.up.Header["X-Api-Key"] = <<GetAPIKey(config)>>
        /\ ~HeaderCarries(req.up.Header, "X-Api-Key", req.token)
        /\ ~HeaderCarries(req.up.Header, "Authorization", req.token)
        /\ ~HeaderCarries(req.up.Header, "X-Api-Key", ExtractToken(req.r.Header))
        /\ ~HeaderCarries(req.up.Header, "Authorization", ExtractToken(req.r.Header))

\* C1 witness: the upstream was called for a request that carried its token
\* in Authorization and another token in X-Api-Key.
C1_Witness ==
    /\ Proxied /\ req.valid /\ req.calls = 1 /\ req.up # NoRequest
    /\ {"Authorization", "X-Api-Key"} \subseteq DOMAIN req.r.Header
    /\ req.token = TokenA

\* C2: the upstream is called only after ValidateToken returned found for
\* the request's token; a request with no non-empty token, or whose token
\* was not found, is answered 401 and the upstream is never called for it.
C2_AuthBeforeUpstream ==
    Proxied =>
        /\ \A i \in 1..Len(req.trace) :
              req.trace[i] = "client.Do" =>
                  \E j \in 1..(i - 1) : req.trace[j] = "ValidateToken:ok"
        /\ (req.calls > 0 \/ req.up # NoRequest) => req.valid
        /\ (ExtractToken(req.r.Header) = EmptyStr \/ ~req.valid) =>
              /\ req.pc = "done"
              /\ req.status = StatusUnauthorized
              /\ req.calls = 0
              /\ req.up = NoRequest
              /\ \A i \in 1..Len(req.trace) : req.trace[i] # "client.Do"

\* C2 witness: a request with a non-empty token that was not found got 401.
C2_Witness ==
    /\ Proxied /\ req.pc = "done" /\ req.status = StatusUnauthorized
    /\ req.token # EmptyStr /\ ~req.valid /\ req.calls = 0

\* A proxy request with token t is started by this step.
StartsWith(t) ==
    /\ req.pc \in {"idle", "done"}
    /\ req' # req
    /\ req'.r # NoRequest
    /\ req'.r.Path # <<"/health">>
    /\ ExtractToken(req'.r.Header) = t

\* This step adds the token string t to the store.
Adds(t) == lastOp'.op \in {"GetCredential", "Add"} /\ lastOp'.token = t

\* C3: when RevokeCredential(t) returns, t is no longer valid; and as long
\* as t is not added again it stays invalid, and every proxy request that
\* starts with t is answered 401 without calling the upstream.
C3_RevokedStaysRejected ==
    [][\A t \in TokenStrings :
          /\ (lastOp'.op = "RevokeCredential" /\ lastOp'.token = t) =>
                (t \notin DOMAIN tokens' /\ ~ValidateToken(tokens', t, now').ok)
          /\ (t \notin DOMAIN tokens /\ ~Adds(t)) =>
                /\ t \notin DOMAIN tokens'
                /\ ~ValidateToken(tokens', t, now').ok
                /\ StartsWith(t) =>
                      (req'.pc = "done" /\ req'.status = StatusUnauthorized /\ req'.calls = 0)]_vars

\* C3 witness: RevokeCredential returned for a token that was in the store,
\* and the token is not valid.
C3_Witness ==
    /\ lastOp.op = "RevokeCredential" /\ lastOp.ok /\ lastOp.token = TokenA
    /\ ~ValidateToken(tokens, TokenA, now).ok

\* The record was added with its expiry in the future.
AddedLive(info) == info.ExpiresAt > info.CreatedAt

\* C4: a record added with a future expiry that is still in the map is
\* found by Get at every time up to its expiry and not found after it,
\* whether or not Cleanup has run.
C4_LazyExpiry ==
    (lastOp.op = "Get" /\ lastOp.token \in DOMAIN tokens /\ AddedLive(tokens[lastOp.token])) =>
        /\ (now <= tokens[lastOp.token].ExpiresAt) =>
              (lastOp.ok /\ lastOp.info = tokens[lastOp.token])
        /\ (now > tokens[lastOp.token].ExpiresAt) =>
              (~lastOp.ok /\ lastOp.info = NilInfo)

\* C4 witness: Get did not find a record that was added live, has expired
\* since, and is still in the map.
C4_Witness ==
    /\ lastOp.op = "Get" /\ lastOp.token \in DOMAIN tokens
    /\ AddedLive(tokens[lastOp.token])
    /\ now > tokens[lastOp.token].ExpiresAt
    /\ ~lastOp.ok

\* C5 as stated: Get finds the token iff it is in the map and the current
\* time is strictly before ExpiresAt.
C5_StrictlyBefore ==
    (lastOp.op = "Get") =>
        (lastOp.ok <=> (lastOp.token \in DOMAIN tokens /\ now < tokens[lastOp.token].ExpiresAt))

\* C5 amended: Get finds the token iff it is in the map and the current
\* time is not after ExpiresAt; at the instant of ExpiresAt it is found.
C5_NotAfter ==
    (lastOp.op = "Get") =>
        /\ lastOp.ok <=> (lastOp.token \in DOMAIN tokens /\ now <= tokens[lastOp.token].ExpiresAt)
        /\ lastOp.ok => lastOp.info = tokens[lastOp.token]

\* C5 witness: Get found a record at the instant of its ExpiresAt.
C5_Witness ==
    /\ lastOp.op = "Get" /\ lastOp.token \in DOMAIN tokens
    /\ now = tokens[lastOp.token].ExpiresAt
    /\ lastOp.ok

\* C6: Get and ValidateToken do not find a token that is not a key of the
\* store, whatever else the store holds.
C6_AbsentNotFound ==
    /\ (lastOp.op = "Get" /\ lastOp.token \notin DOMAIN tokens) =>
          (~lastOp.ok /\ lastOp.info = NilInfo)
    /\ \A t \in TokenStrings : t \notin DOMAIN tokens => ~ValidateToken(tokens, t, now).ok

\* C6 witness: Get did not find a token that is absent from a non-empty store.
C6_Witness ==
    /\ lastOp.op = "Get" /\ lastOp.token \notin DOMAIN tokens
    /\ DOMAIN tokens # {}
    /\ ~lastOp.ok

\* C7: RevokeCredential returns no error in every store state, leaves the
\* token out of the store and every other entry as it was, and revoking the
\* same token again leaves the store exactly as the first revocation left it.
C7_RevokeIdempotent ==
    [][lastOp'.op = "RevokeCredential" =>
          /\ lastOp'.err = NilError
          /\ tokens' = [k \in (DOMAIN tokens) \ {lastOp'.token} |-> tokens[k]]
          /\ (lastOp.op = "RevokeCredential" /\ lastOp.token = lastOp'.token) => tokens' = tokens]_vars

\* C7 witness: RevokeCredential succeeded for a token that was not in the store.
C7_Witness ==
    /\ lastOp.op = "RevokeCredential" /\ ~lastOp.ok /\ lastOp.err = NilError
    /\ lastOp.token \notin DOMAIN tokens

\* Entries of s whose expiry has passed at time t
ExpiredKeys(s, t) == {k \in DOMAIN s : t > s[k].ExpiresAt}

\* C8: Cleanup deletes exactly the entries whose expiry has passed, leaves
\* the others as they were, and returns the number of entries deleted (0 and
\* an unchanged store when nothing has expired).
C8_CleanupExact ==
    [][lastOp'.op = "Cleanup" =>
          /\ tokens' = [k \in (DOMAIN tokens) \ ExpiredKeys(tokens, now) |-> tokens[k]]
          /\ lastOp'.ret = Cardinality(ExpiredKeys(tokens, now))
          /\ ExpiredKeys(tokens, now) = {} => (lastOp'.ret = 0 /\ tokens' = tokens)]_vars

\* C8 witness: Cleanup deleted an entry and left another one in the store.
C8_Witness ==
    /\ lastOp.op = "Cleanup" /\ lastOp.ret >= 1
    /\ DOMAIN tokens # {}

\* C9: Get leaves the map as it was, also when it finds the record expired.
C9_GetReadOnly ==
    [][lastOp'.op = "Get" => tokens' = tokens]_vars

\* C9 witness: Get found a record expired while the store held two entries,
\* the expired one included.
C9_Witness ==
    /\ lastOp.op = "Get" /\ ~lastOp.ok
    /\ lastOp.token \in DOMAIN tokens
    /\ Cardinality(DOMAIN tokens) = 2
    /\ After(now, tokens[lastOp.token].ExpiresAt)

\* C10: after Add(token, record) the store maps token to that record, every
\* other entry is unchanged, and a Get(token) that follows returns the
\* record while its expiry is in the future.
C10_AddOverwrites ==
    [][/\ lastOp'.op = "Add" =>
            /\ tokens' = [k \in (DOMAIN tokens) \cup {lastOp'.token} |->
                            IF k = lastOp'.token THEN lastOp'.info ELSE tokens[k]]
            /\ (now' < lastOp'.info.ExpiresAt) =>
                  (ValidateToken(tokens', lastOp'.token, now').ok
                   /\ ValidateToken(tokens', lastOp'.token, now').info = lastOp'.info)
       /\ (lastOp.op = "Add" /\ lastOp'.op = "Get" /\ lastOp'.token = lastOp.token
           /\ now < lastOp.info.ExpiresAt) =>
            (lastOp'.ok /\ lastOp'.info = lastOp.info)]_vars

\* C10 witness: Add replaced the record of a key that was already in the map.
C10_Witness ==
    /\ lastOp.op = "Add" /\ lastOp.ok
    /\ tokens[lastOp.token] = lastOp.info
    /\ Cardinality(DOMAIN tokens) = 2

\* C11: when tasks add distinct tokens concurrently, no insert is lost: a Get
\* that begins after a token's Add returned finds it, and once every Add has
\* returned every token is in the store with its own record.
C11_NoLostInsert ==
    /\ \A i \in TaskIds :
          (task[i].pc = "getRead" /\ task[i].expect) => task[i].res
    /\ \A j \in TaskIds :
          AddReturned(j) =>
              /\ TaskToken(j) \in DOMAIN tokens
              /\ tokens[TaskToken(j)].AgentID = ToString(j)
              /\ Get(tokens, TaskToken(j), now).ok

\* C11 witness: every task has added its token and all of them are inside
\* Get at the same time, each having found a token added by another task.
C11_Witness ==
    /\ mu.readers = TaskIds
    /\ \A i \in TaskIds :
          task[i].pc = "getRead" /\ task[i].expect /\ task[i].res /\ task[i].tok # i

\* What GetCredential(ttl, agent, scope, hex) leaves behind on a configured
\* plugin: the record is in the store under the returned Value, with the
\* requester's identity and the returned expiry, which is now + ttl.
Issued(ttl, agent, scope) ==
    LET cred == lastOp'.ret
    IN  /\ lastOp'.err = NilError
        /\ cred.ExternalID = cred.Value
        /\ cred.ExpiresAt = now + ttl
        /\ cred.Value \in DOMAIN tokens'
        /\ tokens'[cred.Value] = TokenInfo(agent.ID, agent.Name, scope, cred.ExpiresAt, now)

\* C12: after GetCredential returns on a configured plugin the record is in
\* the store, ValidateToken of the returned token is valid and yields the
\* agent's id, name and scope, the stored expiry is the returned ExpiresAt =
\* issue time + TTL, and ExternalID = Value.
C12_IssuedTokenValid ==
    [][lastOp'.op = "GetCredential" =>
       \A ttl \in TTLSet, a \in Agents, sc \in Scopes, h \in HexPool :
          (config # NilConfig /\ GetCredential(ttl, a, sc, h)) =>
              /\ Issued(ttl, a, sc)
              /\ LET v == ValidateToken(tokens', lastOp'.ret.Value, now')
                 IN  /\ v.ok
                     /\ v.info.AgentID = a.ID
                     /\ v.info.AgentName = a.Name
                     /\ v.info.Scope = sc]_vars

\* The part of C12 that holds for every TTL: the record is inserted before
\* GetCredential returns, and the token is valid when the TTL is not negative.
C12_InsertedBeforeReturn ==
    [][lastOp'.op = "GetCredential" =>
       \A ttl \in TTLSet, a \in Agents, sc \in Scopes, h \in HexPool :
          (config # NilConfig /\ GetCredential(ttl, a, sc, h)) =>
              /\ Issued(ttl, a, sc)
              /\ ValidateToken(tokens', lastOp'.ret.Value, now').ok <=> ttl >= 0]_vars

Unconfigured == config = NilConfig
ConfigureSucceeds == lastOp'.op = "Configure" /\ lastOp'.err = NilError

\* C13: the plugin is unconfigured exactly until Configure first succeeds;
\* while it is, GetCredential and Validate return an error, GetCredential
\* leaves the store as it was and GetAPIKey returns ""; once a Configure has
\* succeeded, Validate returns nil and GetAPIKey the key last configured.
C13_ConfigurationGate ==
    [][/\ (Unconfigured /\ ~ConfigureSucceeds) => config' = NilConfig
       /\ (~Unconfigured /\ ~ConfigureSucceeds) => config' = config
       /\ ConfigureSucceeds =>
          \A c \in ConfigInputs :
             (Configure(c) /\ lastOp'.err = NilError) =>
                 /\ config' # NilConfig
                 /\ ValidateErr(config') = NilError
                 /\ GetAPIKey(config') = c.api_key
                 /\ c.api_key # EmptyStr
       /\ (Unconfigured /\ lastOp'.op = "GetCredential") =>
             (lastOp'.err # NilError /\ tokens' = tokens)
       /\ lastOp'.op = "Validate" => (lastOp'.err # NilError <=> Unconfigured)
       /\ lastOp'.op = "GetAPIKey" =>
             /\ Unconfigured => lastOp'.token = EmptyStr
             /\ ~Unconfigured => lastOp'.token = config.APIKey /\ lastOp'.token # EmptyStr
      ]_vars

\* C13 witness: GetCredential was refused on a plugin that is still
\* unconfigured and whose store already holds records.
C13_Witness ==
    /\ lastOp.op = "GetCredential"
    /\ lastOp.err # NilError
    /\ config = NilConfig
    /\ tokens # NewTokenStore

\* C14: a Configure call whose JSON is invalid or whose api_key is missing or
\* empty returns an error, keeps the configuration and the proxy field as
\* they were, and starts no proxy server.
C14_FailedConfigureKeepsState ==
    [][lastOp'.op = "Configure" =>
       \A c \in ConfigInputs :
          (Configure(c) /\ (~c.valid \/ c.api_key = EmptyStr)) =>
              /\ lastOp'.err # NilError
              /\ config' = config
              /\ proxy' = proxy
              /\ ~lastOp'.ok]_vars

\* C14 witness: a Configure call failed on a plugin that was configured
\* before, and the earlier configuration is still in place.
C14_Witness ==
    /\ lastOp.op = "Configure"
    /\ lastOp.err = "api_key is required"
    /\ config # NilConfig
    /\ proxy

\* ------------------------------------------------------ proxy request claims
\* The three kinds of invalid token: a record that is in the store but
\* expired, a token of the issued format that is not in the store, a string
\* that is not of the issued format.
TokenKind(token, s, t) ==
    IF token = EmptyStr THEN "missing"
    ELSE IF token \in DOMAIN s
    THEN (IF After(t, s[token].ExpiresAt) THEN "expired" ELSE "live")
    ELSE IF token[1] = "crd_" THEN "never issued" ELSE "malformed"

InvalidKinds == {"expired", "never issued", "malformed"}

\* The header lines of r that do not carry the credential.
Uncredentialed(r) == MapDelete(MapDelete(r.Header, "Authorization"), "X-Api-Key")

\* r2 differs from r1 at most in the credential it carries.
SameButToken(r1, r2) ==
    /\ r1.Method = r2.Method /\ r1.EscapedPath = r2.EscapedPath
    /\ r1.RawQuery = r2.RawQuery /\ Uncredentialed(r1) = Uncredentialed(r2)

\* What handleRequest answers to r in store s at time t.
Answer(r, s, t) ==
    LET q == BeginRequest(r, ValidateToken(s, ExtractToken(r.Header), t), GetAPIKey(config))
    IN  <<q.status, q.header, q.body>>

\* The requests whose token is invalid in store s at time t.
InvalidRequests(s, t) ==
    {r \in AuthRequests : TokenKind(ExtractToken(r.Header), s, t) \in InvalidKinds}

Bearer(r) == TrimPrefix(HeaderGet(r.Header, "Authorization"), BearerPrefix)

\* C16 as stated: a non-empty x-api-key value is the token that is
\* authenticated, the Authorization bearer only when x-api-key is absent.
C16_ApiKeyFirst ==
    Proxied =>
        /\ HeaderGet(req.r.Header, "x-api-key") # EmptyStr =>
              req.token = HeaderGet(req.r.Header, "x-api-key")
        /\ HeaderGet(req.r.Header, "x-api-key") = EmptyStr => req.token = Bearer(req.r)

\* C16 amended: the Authorization value, "Bearer " stripped, is the token
\* that is authenticated whenever it is non-empty; the x-api-key value is
\* the token when there is no Authorization header.
C16_AuthorizationFirst ==
    Proxied =>
        /\ Bearer(req.r) # EmptyStr => req.token = Bearer(req.r)
        /\ HeaderGet(req.r.Header, "Authorization") = EmptyStr =>
              req.token = HeaderGet(req.r.Header, "x-api-key")

\* C16 witness: a request with a live token in Authorization and another,
\* unknown token in x-api-key was authenticated by the Authorization token.
C16_Witness ==
    /\ Proxied /\ req.valid /\ req.up # NoRequest
    /\ HeaderGet(req.r.Header, "x-api-key") = TokenB
    /\ Bearer(req.r) = TokenA
    /\ req.token = TokenA

\* The hop-by-hop header names, in lower case.
HopByHopNames ==
    {"connection", "keep-alive", "proxy-authenticate", "proxy-authorization",
     "te", "trailers", "transfer-encoding", "upgrade"}

LowerOf(k) == IF k \in DOMAIN ToLower THEN ToLower[k] ELSE k

\* C17: no header of the upstream request is, in whatever letter case, one
\* of the hop-by-hop headers.
C17_NoHopByHopUpstream ==
    (Proxied /\ req.up # NoRequest) =>
        \A k \in DOMAIN req.up.Header : LowerOf(k) \notin HopByHopNames

\* C17 witness: a request that carried all eight hop-by-hop headers was
\* sent upstream.
C17_Witness ==
    /\ Proxied /\ req.up # NoRequest /\ req.calls = 1
    /\ \A n \in HopByHopNames : \E k \in DOMAIN req.r.Header : LowerOf(k) = n

\* The inbound headers that are to reach the upstream unchanged.
Forwardable(r) ==
    {k \in DOMAIN r.Header :
        LowerOf(k) \notin HopByHopNames \cup {"authorization", "x-api-key", "host"}}

HeadersPreserved ==
    \A k \in Forwardable(req.r) :
        k \in DOMAIN req.up.Header /\ req.up.Header[k] = req.r.Header[k]

\* C18: the upstream request has the method, the path and the raw query of
\* the inbound request, and every inbound header that is not hop-by-hop,
\* Authorization, x-api-key or Host, with all its values.
C18_RequestPreserved ==
    (Proxied /\ req.up # NoRequest) =>
        /\ req.up.Method = req.r.Method
        /\ URLPath(req.up.URL) = req.r.EscapedPath
        /\ URLQuery(req.up.URL) = req.r.RawQuery
        /\ HeadersPreserved

\* What holds of C18: method, raw query and headers are preserved, and the
\* path is the decoded path of the inbound request.
C18_DecodedPathForwarded ==
    (Proxied /\ req.up # NoRequest) =>
        /\ req.up.Method = req.r.Method
        /\ URLPath(req.up.URL) = PathUnescape(req.r.EscapedPath)
        /\ URLQuery(req.up.URL) = req.r.RawQuery
        /\ HeadersPreserved

\* C19: the upstream request has a non-empty anthropic-version: the inbound
\* values when the client sent a non-empty one, else the default 2023-06-01.
C19_VersionEnsured ==
    (Proxied /\ req.up # NoRequest) =>
        /\ "Anthropic-Version" \in DOMAIN req.up.Header
        /\ HeaderGet(req.up.Header, "anthropic-version") # EmptyStr
        /\ HeaderGet(req.r.Header, "anthropic-version") # EmptyStr =>
              req.up.Header["Anthropic-Version"] = req.r.Header["Anthropic-Version"]
        /\ HeaderGet(req.r.Header, "anthropic-version") = EmptyStr =>
              req.up.Header["Anthropic-Version"] = <<DefaultAnthropicVersion>>

\* C19 witness: the client's own version, not the default, went upstream.
C19_Witness ==
    /\ Proxied /\ req.up # NoRequest /\ req.calls = 1
    /\ HeaderGet(req.r.Header, "anthropic-version") = <<"2023-01-01">>
    /\ req.up.Header["Anthropic-Version"] = <<(<<"2023-01-01">>)>>

\* A client reading the body as JSON: strings run from quote to quote,
\* outside of strings only { } : , may stand.
JSONString(v) == [t |-> "string", v |-> v]
JSONPunct(c) == [t |-> "punct", v |-> <<c>>]
JSONInvalid == [t |-> "invalid", v |-> << >>]

RECURSIVE JSONTokens(_, _, _, _)
JSONTokens(text, inString, cur, out) ==
    IF text = << >> THEN (IF inString THEN out \o <<JSONInvalid>> ELSE out)
    ELSE LET c == Head(text)
         IN  IF c = Quote
             THEN (IF inString
                   THEN JSONTokens(Tail(text), FALSE, << >>, out \o <<JSONString(cur)>>)
                   ELSE JSONTokens(Tail(text), TRUE, << >>, out))
             ELSE IF inString
             THEN JSONTokens(Tail(text), TRUE, cur \o <<c>>, out)
             ELSE JSONTokens(Tail(text), FALSE, << >>,
                             out \o <<IF c \in {"{", "}", ":", ","} THEN JSONPunct(c)
                                      ELSE JSONInvalid>>)

\* text is {"error": {"type": type, "message": some string}}
IsErrorJSON(text, type) ==
    LET tk == JSONTokens(text, FALSE, << >>, << >>)
    IN  /\ Len(tk) = 13
        /\ SubSeq(tk, 1, 10) =
             <<JSONPunct("{"), JSONString(<<"error">>), JSONPunct(":"), JSONPunct("{"),
               JSONString(<<"type">>), JSONPunct(":"), JSONString(<<type>>), JSONPunct(","),
               JSONString(<<"message">>), JSONPunct(":")>>
        /\ tk[11].t = "string"
        /\ SubSeq(tk, 12, 13) = <<JSONPunct("}"), JSONPunct("}")>>

Attempts == Cardinality({i \in 1..Len(req.trace) : req.trace[i] = "client.Do"})
TransportFailed == req.calls = 1 /\ req.resp = NoResponse

\* C20: for a request client.Do is called at most once; when it returns an
\* error the answer is 502 with an upstream_error JSON body and the request
\* is finished without another call.
C20_SingleAttempt502JSON ==
    Proxied =>
        /\ Attempts <= 1 /\ req.calls <= 1
        /\ TransportFailed =>
              /\ req.pc = "done"
              /\ req.status = StatusBadGateway
              /\ Len(req.body) = 1
              /\ IsErrorJSON(req.body[1], "upstream_error")

\* What holds of C20: one call at most, 502 on a transport error, a body
\* that begins as the upstream_error envelope and carries err.Error().
C20_SingleAttempt502 ==
    Proxied =>
        /\ Attempts <= 1 /\ req.calls <= 1
        /\ TransportFailed =>
              /\ req.pc = "done"
              /\ req.status = StatusBadGateway
              /\ req.body = <<UpstreamError(URLError(req.up.Method, req.up.URL,
                                  <<"dial tcp: connect: connection refused">>))>>
              /\ IsErrorJSON(InvalidToken, "authentication_error")
              /\ ~IsErrorJSON(req.body[1], "upstream_error")

\* ------------------------------------------------- timeouts and streaming
\* The upstream call of the request is in progress.
Pending == req.pc \in {"forwarding", "streaming"}

\* The request ended with the gateway error, or with the relay of a response.
GatewayError ==
    /\ req.status = StatusBadGateway /\ req.resp = NoResponse
    /\ req.header = ErrorHeader /\ Len(req.body) = 1
Relayed == req.resp # NoResponse /\ req.status = req.resp.StatusCode /\ req.closed

\* The last log line of the request
LastLog == IF Len(req.log) > 0 THEN req.log[Len(req.log)] ELSE <<"">>

TimedOutAwaitingHeaders ==
    /\ LastLog[1] = "upstream error"
    /\ LastLog = <<"upstream error">> \o URLError(req.up.Method, req.up.URL, TimeoutAwaitingHeaders)
TimedOutReadingBody ==
    LastLog[1] = "read error" /\ LastLog[2] = TimeoutReadingBody

\* C21: a request whose upstream call is in progress always comes to its
\* end, with the gateway error or with a relayed response; when the client's
\* timer fires before the response headers the answer is the 502 gateway
\* error, when it fires during the relay the relay ends.
C21_TimeoutTerminates ==
    /\ [](TimedOutAwaitingHeaders =>
            /\ req.pc = "done" /\ GatewayError
            /\ req.body = <<UpstreamError(URLError(req.up.Method, req.up.URL,
                                                   TimeoutAwaitingHeaders))>>)
    /\ [](TimedOutReadingBody => (req.pc = "done" /\ Relayed))
    /\ []((Proxied /\ req.calls = 1 /\ req.pc = "done") => (GatewayError \/ Relayed))
    /\ (Pending ~> (req.pc = "done" /\ (GatewayError \/ Relayed)))

\* C21 witness: the timer fired while the headers were awaited and the
\* request was answered 502.
C21_Witness ==
    /\ TimedOutAwaitingHeaders
    /\ req.pc = "done" /\ req.status = StatusBadGateway

\* The request was relayed by handleStreaming.
StreamingMode ==
    req.pc = "streaming" \/ \E i \in 1..Len(req.trace) : req.trace[i] = "Read"

\* The first Content-Type value of the response has text/event-stream in it.
HasEventStream(resp) ==
    /\ "Content-Type" \in DOMAIN resp.Header
    /\ Len(resp.Header["Content-Type"]) > 0
    /\ LET ct == resp.Header["Content-Type"][1]
       IN  \E i \in 1..Len(ct) : SubSeq(ct, i, i) = <<EventStream>>

Count(trace, event) == Cardinality({i \in 1..Len(trace) : trace[i] = event})

\* C22: a response is relayed in streaming mode exactly when its
\* Content-Type contains text/event-stream; in streaming mode every chunk
\* read is written and flushed before the next Read, so the client has
\* received chunk k when chunk k+1 is read.
C22_StreamingFlushedInOrder ==
    (Proxied /\ req.resp # NoResponse) =>
        /\ StreamingMode <=> HasEventStream(req.resp)
        /\ StreamingMode =>
              /\ req.body = SubSeq(req.resp.Body, 1, Len(req.body))
              /\ req.flushed = Len(req.body)
              /\ Count(req.trace, "Write") = Len(req.body)
              /\ Count(req.trace, "Flush") = Len(req.body)
              /\ Count(req.trace, "Read") <= req.flushed + 1
              /\ \A i \in 1..Len(req.trace) :
                    /\ req.trace[i] = "Write" =>
                          /\ req.trace[i - 1] = "Read"
                          /\ i < Len(req.trace) /\ req.trace[i + 1] = "Flush"
                    /\ (req.trace[i] = "Read" /\ \E j \in (i + 1)..Len(req.trace) :
                                                     req.trace[j] = "Read") =>
                          /\ req.trace[i + 1] = "Write"
                          /\ req.trace[i + 2] = "Flush"
                          /\ req.trace[i + 3] = "Read"

\* C22 witness: the client has received the first chunk of an event stream
\* while the second has not been read yet.
C22_Witness ==
    /\ Proxied /\ req.pc = "streaming"
    /\ req.body = <<"e1">> /\ req.flushed = 1 /\ req.rest = <<"e2">>

\* The events with which the relay loop ends.
LoopEnds == {"Read:EOF", "Read:error", "Write:error"}

\* C23: the relay loop ends on EOF, on a read error or on the first failed
\* write to the client and on nothing else; after a failed write nothing is
\* read or written any more; and when the handler has returned the body of
\* the upstream response is closed, in either relay mode.
C23_RelayLoopEnds ==
    (Proxied /\ req.resp # NoResponse) =>
        /\ req.pc = "done" => req.closed
        /\ (req.pc = "done" /\ StreamingMode) =>
              /\ Len(req.trace) >= 2
              /\ req.trace[Len(req.trace)] = "return"
              /\ req.trace[Len(req.trace) - 1] \in LoopEnds
        /\ req.pc = "streaming" => \A i \in 1..Len(req.trace) : req.trace[i] \notin LoopEnds
        /\ \A i \in 1..Len(req.trace) :
              req.trace[i] = "Write:error" =>
                  /\ req.pc = "done"
                  /\ i = Len(req.trace) - 1
                  /\ Count(req.trace, "Write:error") = 1

\* C23 witness: the write of the first chunk failed and the handler returned
\* with the rest of the stream unread and the body closed.
C23_Witness ==
    /\ Proxied /\ req.pc = "done" /\ req.closed
    /\ Count(req.trace, "Write:error") = 1
    /\ req.body = << >> /\ req.rest # << >>

\* The upstream response headers that are not hop-by-hop.
KeptResponseHeaders(resp) == {k \in DOMAIN resp.Header : LowerOf(k) \notin HopByHopNames}

\* C24 as stated: in both relay modes the response to the client has every
\* non-hop-by-hop header of the upstream response and no hop-by-hop header.
C24_NoHopByHopToClient ==
    (Proxied /\ req.resp # NoResponse) =>
        /\ KeptResponseHeaders(req.resp) \subseteq DOMAIN req.header
        /\ \A k \in DOMAIN req.header : LowerOf(k) \notin HopByHopNames

\* The headers handleStreaming sets itself.
SSEHeaders ==
    [k \in {"Content-Type", "Cache-Control", "Connection", "X-Accel-Buffering"} |->
        CASE k = "Content-Type" -> <<(<<EventStream>>)>>
          [] k = "Cache-Control" -> <<(<<"no-cache">>)>>
          [] k = "Connection" -> <<(<<"keep-alive">>)>>
          [] k = "X-Accel-Buffering" -> <<(<<"no">>)>>]

\* C24 amended: without streaming the response headers are exactly the
\* upstream's headers that are not hop-by-hop, with all their values; with
\* streaming they are these, except that Content-Type, Cache-Control,
\* X-Accel-Buffering and Connection have the values the proxy sets itself
\* (Connection: keep-alive, the only hop-by-hop header there is).
C24_UpstreamHeadersRelayed ==
    (Proxied /\ req.resp # NoResponse) =>
        LET kept == KeptResponseHeaders(req.resp)
        IN  /\ ~StreamingMode =>
                  /\ DOMAIN req.header = kept
                  /\ \A k \in kept : req.header[k] = req.resp.Header[k]
            /\ StreamingMode =>
                  /\ DOMAIN req.header = kept \cup DOMAIN SSEHeaders
                  /\ \A k \in kept \ DOMAIN SSEHeaders : req.header[k] = req.resp.Header[k]
                  /\ \A k \in DOMAIN SSEHeaders : req.header[k] = SSEHeaders[k]
                  /\ \A k \in DOMAIN req.header :
                        LowerOf(k) \in HopByHopNames => k = "Connection"

\* C24 witness: an event stream is relayed whose upstream response had
\* Connection: close and Transfer-Encoding; the client gets Connection:
\* keep-alive and no Transfer-Encoding.
C24_Witness ==
    /\ Proxied /\ req.pc = "streaming"
    /\ req.resp.Header["Connection"] = <<(<<"close">>)>>
    /\ "Transfer-Encoding" \in DOMAIN req.resp.Header
    /\ req.header["Connection"] = <<(<<"keep-alive">>)>>
    /\ "Transfer-Encoding" \notin DOMAIN req.header
    /\ req.header["Vary"] = <<(<<"Accept">>), (<<"Origin">>)>>

\* ------------------------------------------------------------- the secret
\* Some header value of h carries text t.
HeadersCarry(h, t) == \E k \in DOMAIN h : HeaderCarries(h, k, t)

\* C25: no configured secret is carried by a credential GetCredential
\* returns, by a log line, or by the status line, headers or body of an
\* answer the proxy makes up itself (401, 500, 502); of the upstream request
\* only the X-Api-Key header carries it, and that header is the secret.
C25_SecretNeverLeaks ==
    \A secret \in Secrets :
        /\ (lastOp.op = "GetCredential" /\ lastOp.err = NilError) =>
              /\ ~Carries(lastOp.ret.Value, secret)
              /\ ~Carries(lastOp.ret.ExternalID, secret)
              /\ ~Carries(lastOp.token, secret)
        /\ \A i \in 1..Len(req.log) : ~Carries(req.log[i], secret)
        /\ (Proxied /\ req.resp = NoResponse) =>
              /\ \A i \in 1..Len(req.body) : ~Carries(req.body[i], secret)
              /\ ~HeadersCarry(req.header, secret)
        /\ (Proxied /\ req.up # NoRequest) =>
              /\ req.up.Header["X-Api-Key"] = <<GetAPIKey(config)>>
              /\ ~HeadersCarry(MapDelete(req.up.Header, "X-Api-Key"), secret)
              /\ ~Carries(req.up.URL, secret)

\* C25 witness: a request went upstream with the secret in X-Api-Key, the
\* call failed, and the 502 answer and the two log lines were written.
C25_Witness ==
    /\ Proxied /\ req.pc = "done" /\ req.status = StatusBadGateway
    /\ GetAPIKey(config) \in Secrets
    /\ req.up.Header["X-Api-Key"] = <<GetAPIKey(config)>>
    /\ Len(req.log) = 2
    /\ tokens # NewTokenStore

\* ----------------------------------------------------- issuance over HTTP
\* This step is a POST /v1/tokens that issued a token.
IssuedOverHTTP == lastOp'.op = "IssueToken" /\ lastOp'.err = NilError

\* The ttl the request asks for, as time.ParseDuration reads it
Requested(body) == ParseDuration(DecodeIssueRequest(body).TTL)

\* What the claim says of every issuance but the expiry in the answer: the
\* record is in the store when the answer is written, its lifetime is at
\* most 24 hours, and a ttl above 24h is issued as 24h.
IssuedCapped ==
    LET answer == lastOp'.ret
        body == req'.r.Body
    IN  /\ req'.pc = "done" /\ req'.status = StatusOK /\ req'.body = <<answer>>
        /\ req'.trace = <<"Add", "WriteHeader">>
        /\ answer.token \in DOMAIN tokens'
        /\ tokens'[answer.token] = lastOp'.info
        /\ tokens'[answer.token].ExpiresAt - tokens'[answer.token].CreatedAt <= 24 * Hour
        /\ tokens'[answer.token].ExpiresAt - now <= 24 * Hour
        /\ (Requested(body).err = NilError /\ Requested(body).d > 24 * Hour) =>
              /\ tokens'[answer.token].ExpiresAt = now + 24 * Hour
              /\ answer.ttl = "24h0m0s"

\* C27 as stated: every token issued by POST /v1/tokens lives at most 24
\* hours, a ttl above 24h being cut to 24h; the expiry of the stored record
\* equals the expires_at of the answer; the token is in the store when the
\* answer is sent.
C27_ExpiryEqualsAnswer ==
    [][IssuedOverHTTP =>
          /\ IssuedCapped
          /\ ParseRFC3339(lastOp'.ret.expires_at) = tokens'[lastOp'.ret.token].ExpiresAt]_vars

\* C27 amended: as above, but the expires_at of the answer is the expiry of
\* the stored record to the whole second: never later than the stored
\* expiry and less than a second before it.
C27_ExpiryToTheSecond ==
    [][IssuedOverHTTP =>
          /\ IssuedCapped
          /\ lastOp'.ret.expires_at = FormatRFC3339(tokens'[lastOp'.ret.token].ExpiresAt)
          /\ ParseRFC3339(lastOp'.ret.expires_at) <= tokens'[lastOp'.ret.token].ExpiresAt
          /\ tokens'[lastOp'.ret.token].ExpiresAt < ParseRFC3339(lastOp'.ret.expires_at) + Second
      ]_vars

\* C27 witness: a token asked for with ttl 48h was issued within a second,
\* not on it; its record expires 24 hours later, the answer names the whole
\* second before that.
C27_Witness ==
    /\ lastOp.op = "IssueToken" /\ lastOp.err = NilError
    /\ req.r.Body.ttl = "48h"
    /\ now % Second # 0
    /\ tokens[lastOp.token].ExpiresAt = now + 24 * Hour
    /\ ParseRFC3339(lastOp.ret.expires_at) < tokens[lastOp.token].ExpiresAt

\* This step is an issuance that returned a token to the requester.
Issues == lastOp'.op \in {"GetCredential", "IssueToken"} /\ lastOp'.err = NilError

\* C28: the record an issuance (GetCredential, POST /v1/tokens) inserts has
\* its expiry strictly after the time of insertion, whatever ttl was asked
\* for, and the token returned is valid when it is returned.
C28_InsertedLive ==
    [][Issues =>
          /\ lastOp'.token \in DOMAIN tokens'
          /\ tokens'[lastOp'.token].ExpiresAt > now'
          /\ ValidateToken(tokens', lastOp'.token, now').ok]_vars

\* What holds of C28: the record is inserted with expiry = time of
\* insertion + the ttl issued, which is in the future exactly when that ttl
\* is positive; the token is valid on return exactly when it is not negative.
C28_LiveWhenPositiveTTL ==
    [][Issues =>
          /\ lastOp'.token \in DOMAIN tokens'
          /\ tokens'[lastOp'.token] = lastOp'.info
          /\ lastOp'.op = "IssueToken" =>
                /\ lastOp'.info.ExpiresAt = now + IssueTTL(req'.r.Body)
                /\ (lastOp'.info.ExpiresAt > now') <=> (IssueTTL(req'.r.Body) > 0)
                /\ ValidateToken(tokens', lastOp'.token, now').ok <=> (IssueTTL(req'.r.Body) >= 0)
          /\ lastOp'.op = "GetCredential" =>
                /\ (lastOp'.info.ExpiresAt > now') <=> (lastOp'.ret.ExpiresAt - now > 0)
                /\ ValidateToken(tokens', lastOp'.token, now').ok <=>
                      (lastOp'.ret.ExpiresAt - now >= 0)]_vars

\* ------------------------------------------------- request state machine
\* The state of the request in req, told from what the handler has done:
\* the calls it made (trace), the upstream request it built (up), the
\* response it got (resp) and the status it wrote.
RequestState ==
    CASE req.trace = << >> /\ req.pc = "idle" -> "Unauthenticated"
      [] req.trace \in {<<"WriteHeader">>, <<"ValidateToken:fail", "WriteHeader">>}
         /\ req.pc = "done" /\ req.status = StatusUnauthorized /\ req.up = NoRequest -> "Rejected"
      [] req.trace = <<"ValidateToken:ok", "WriteHeader">> /\ req.valid
         /\ req.pc = "done" /\ req.status = StatusInternalServerError
         /\ req.up = NoRequest -> "InternalError"
      [] req.trace = <<"ValidateToken:ok">> /\ req.valid /\ req.pc = "forwarding"
         /\ req.status = 0 /\ req.up # NoRequest /\ req.calls = 0 -> "Forwarding"
      [] req.trace = <<"ValidateToken:ok", "client.Do", "WriteHeader">> /\ req.valid
         /\ req.pc = "done" /\ req.status = StatusBadGateway /\ req.resp = NoResponse
         /\ req.calls = 1 -> "UpstreamFailure"
      [] Len(req.trace) >= 3 /\ req.valid /\ req.calls = 1 /\ req.resp # NoResponse
         /\ SubSeq(req.trace, 1, 3) = <<"ValidateToken:ok", "client.Do", "WriteHeader">>
         /\ Count(req.trace, "WriteHeader") = 1 /\ Count(req.trace, "client.Do") = 1
         /\ req.status = req.resp.StatusCode ->
            (IF req.pc = "done" THEN "Relayed" ELSE IF req.pc = "streaming" THEN "Relaying"
             ELSE "none")
      [] OTHER -> "none"

TerminalStates == {"Rejected", "InternalError", "UpstreamFailure", "Relayed"}

\* The steps of the state machine; a request that has ended stays as it is
\* until the next request is taken up.
StateSuccessors(state) ==
    CASE state = "Unauthenticated" -> {"Rejected", "InternalError", "Forwarding"}
      [] state = "Forwarding" -> {"UpstreamFailure", "Relaying", "Relayed"}
      [] state = "Relaying" -> {"Relaying", "Relayed"}
      [] OTHER -> {}

\* C29: a proxied request is always in one state of the machine
\* Unauthenticated -> Authenticated -> Forwarding -> Relayed | UpstreamFailure;
\* it moves along the arrows only; a request answered 401 or 500 has not been
\* forwarded; a request that has ended is in exactly one terminal state and
\* one status was written for it.
C29_RequestStateMachine ==
    /\ [](Proxied =>
            /\ RequestState # "none"
            /\ req.pc = "done" <=> RequestState \in TerminalStates
            /\ req.pc = "done" => Count(req.trace, "WriteHeader") = 1
            /\ req.status \in {StatusUnauthorized, StatusInternalServerError} =>
                  /\ req.pc = "done" /\ req.calls = 0 /\ req.up = NoRequest
                  /\ Count(req.trace, "client.Do") = 0
            /\ req.up # NoRequest => (req.valid /\ req.trace[1] = "ValidateToken:ok"))
    /\ [][(Proxied' /\ req' # req) =>
            IF req.pc \in {"forwarding", "streaming"}
            THEN /\ req'.r = req.r
                 /\ RequestState' \in StateSuccessors(RequestState)
                 /\ req.status # 0 => req'.status = req.status
            ELSE RequestState' \in StateSuccessors("Unauthenticated")]_vars

\* C29 witness: a request went through Forwarding and the relay of an event
\* stream and has ended as Relayed, with the one status written.
C29_Witness ==
    /\ Proxied /\ RequestState = "Relayed"
    /\ Count(req.trace, "Read") = 2
    /\ Count(req.trace, "WriteHeader") = 1

\* ----------------------------------------------------------- lock discipline
\* Task i is inside the critical section of the method it called.
InCriticalSection(i) == task[i].pc \in {"locked", "unlocking"}

\* C30: while a mutation (Add, Remove, Cleanup) is inside its critical
\* section no other operation is inside its own; a Get that waits while
\* only Gets are inside, and no mutation has announced itself, can enter;
\* and every operation that waits for the lock gets it.
C30_LockDiscipline ==
    /\ [](\A i, k \in TaskIds :
            (i # k /\ InCriticalSection(i) /\ task[i].op \in Mutations) =>
                ~InCriticalSection(k))
    /\ [](\A i \in TaskIds :
            (/\ task[i].pc = "waiting" /\ task[i].op = "Get"
             /\ \A k \in TaskIds : (InCriticalSection(k) \/ task[k].pc = "announced") =>
                                      task[k].op = "Get") =>
                ENABLED StoreLock(i))
    /\ \A i \in TaskIds : (task[i].pc = "waiting") ~> InCriticalSection(i)

\* C30 witness: every task is inside the critical section of a Get at once.
C30_Witness ==
    /\ \A i \in TaskIds : InCriticalSection(i) /\ task[i].op = "Get"
    /\ mu.readers = TaskIds

\* The token of task i is live: the task added it, has not removed it since,
\* and its expiry has not passed.
LiveToken(i) == task[i].added # NilInfo /\ ~After(now, task[i].added.ExpiresAt)

\* C31: whatever the interleaving of Cleanup with Add, Get and Remove, a
\* live token is in the map with the record that was added, a Get of it
\* finds it, and what a Get returns is the complete record that was added or
\* not-found.
C31_CleanupKeepsLive ==
    \A i \in TaskIds :
        /\ LiveToken(i) =>
              /\ TaskToken(i) \in DOMAIN tokens
              /\ tokens[TaskToken(i)] = task[i].added
        /\ (task[i].op = "Get" /\ task[i].pc = "unlocking") =>
              /\ LiveToken(i) => task[i].res
              /\ IF task[i].res THEN task[i].info = task[i].added ELSE task[i].info = NilInfo

\* Cleanup has removed an expired record and is still inside, a live token is
\* in the map and its Get waits for the lock.
C31_Witness ==
    \E i, k \in TaskIds :
        /\ task[k].op = "Cleanup" /\ task[k].pc \in {"sweeping", "unlocking"}
        /\ task[k].removed > 0
        /\ LiveToken(i)
        /\ task[i].op = "Get" /\ task[i].pc = "waiting"

\* The map holds an entry for token whose expiry has passed.
ExpiredEntry(token) == token \in DOMAIN tokens /\ After(now, tokens[token].ExpiresAt)

\* C32: with the ticker of cleanupLoop firing, an entry whose expiry has
\* passed does not stay in the map: the token's entry is deleted, also when
\* nobody revokes it.
C32_ExpiredEventuallyDeleted ==
    \A token \in IssuedTokens : ExpiredEntry(token) ~> (token \notin DOMAIN tokens)

\* The sweep deleted the expired entry of a token that is never revoked.
C32_Witness ==
    /\ lastOp.op = "Cleanup" /\ lastOp.ret > 0
    /\ TokenB \notin DOMAIN tokens
    /\ now > 0

\* The log line names x (a method, an agent name, a status in digits).
Records(line, x) == \E i \in 1..Len(line) : line[i] = x

ErrorLines == {"upstream error", "read error", "write error"}

\* The request passed authentication.
Authenticated == req.valid

C34_RequestsLeaveStore ==
    [][lastOp'.op = "proxy" => tokens' = tokens]_vars

\* A request that presented a token whose entry has expired was rejected,
\* and the entry is still in the map.
C34_Witness ==
    /\ lastOp = ProxyOp
    /\ Proxied /\ req.pc = "done" /\ req.status = StatusUnauthorized
    /\ req.token \in DOMAIN tokens
    /\ After(now, tokens[req.token].ExpiresAt)

\* How many times the token of the request was validated
Validations == Count(req.trace, "ValidateToken:ok") + Count(req.trace, "ValidateToken:fail")

\* The token the request presented would not pass ValidateToken now.
TokenGone == ~ValidateToken(tokens, req.token, now).ok

\* C35: the token of a request is validated once, before the upstream call;
\* no later step of the request validates it again or turns the request
\* down, and when the token has been revoked, has expired or was swept
\* while the request is in flight, the upstream's response is still relayed
\* and the next chunk of a stream still passed on.
C35_ValidatedOnce ==
    /\ [](Proxied => (Validations <= 1 /\ (Pending => Validations = 1)))
    /\ [][(Pending /\ lastOp'.op = "proxy") =>
             /\ req'.valid /\ req'.token = req.token
             /\ req'.trace[1] = "ValidateToken:ok"
             /\ Count(req'.trace, "ValidateToken:ok") = 1
             /\ Count(req'.trace, "ValidateToken:fail") = 0
             /\ req'.status # StatusUnauthorized]_vars
    /\ []((req.pc = "forwarding" /\ TokenGone) =>
             \A resp \in Responses : ENABLED upstreamResponds(resp, 0))
    /\ []((req.pc = "streaming" /\ TokenGone /\ req.rest # << >>) =>
             ENABLED handleStreaming(1, NilError, FALSE))

\* The token was revoked while its request was streaming, and the stream was
\* relayed to its end.
C35_Witness ==
    /\ lastOp = ProxyOp
    /\ Proxied /\ req.pc = "done" /\ StreamingMode
    /\ req.body = req.resp.Body /\ Len(req.body) = 2
    /\ req.trace[Len(req.trace) - 1] = "Read:EOF"
    /\ req.token \notin DOMAIN tokens

\* C36: a Get on the store that is swept returns what the same Get returns
\* on the store that is never swept: the same found or not-found, and the
\* same record.
C36_CleanupInvisible ==
    lastOp.op = "Get" =>
        /\ lastOp.ok = lastOp.ret.ok
        /\ lastOp.info = lastOp.ret.info

\* The sweep has deleted an entry the other store still holds; a Get of it
\* was not found in either store, and another token is found in both.
C36_Witness ==
    /\ lastOp.op = "Get" /\ ~lastOp.ok
    /\ lastOp.token \in (DOMAIN plain) \ (DOMAIN tokens)
    /\ \E t \in DOMAIN tokens : Get(tokens, t, now).ok /\ Get(plain, t, now).ok

\* C37: a configuration, once stored, has a non-empty API key and is never
\* taken away again; the store holds tokens, and the proxy serves, only on a
\* configured plugin; so every request sent upstream has one X-Api-Key
\* value, which is a configured secret and not empty.
C37_SecretNeverEmpty ==
    /\ [](/\ ~Unconfigured => config.APIKey # EmptyStr
          /\ tokens # NewTokenStore => ~Unconfigured
          /\ proxy => ~Unconfigured
          /\ (Proxied /\ req.up # NoRequest) =>
                /\ Len(req.up.Header["X-Api-Key"]) = 1
                /\ req.up.Header["X-Api-Key"][1] # EmptyStr
                /\ req.up.Header["X-Api-Key"][1] \in Secrets)
    /\ [][~Unconfigured => (config' # NilConfig /\ config'.APIKey # EmptyStr)]_vars

\* A Configure call with an empty api_key has just failed while a request
\* is on its way upstream with the key configured before.
C37_Witness ==
    /\ lastOp.op = "Configure" /\ lastOp.err = "api_key is required"
    /\ tokens # NewTokenStore
    /\ Proxied /\ req.pc = "forwarding"
    /\ req.up.Header["X-Api-Key"] = <<config.APIKey>>

\* Where in the trace the status line was written.
WroteHeaderAt == {i \in 1..Len(req.trace) : req.trace[i] = "WriteHeader"}

\* C38: when client.Do has returned a response, the status the client gets
\* is the upstream's, whatever its class and in either relay mode (the
\* answer is the gateway error only when there was no response); the status
\* is written once, after client.Do and before anything of the body.
C38_StatusPassedThrough ==
    Proxied =>
        /\ req.resp # NoResponse =>
              /\ req.status = req.resp.StatusCode
              /\ Cardinality(WroteHeaderAt) = 1
              /\ \A h \in WroteHeaderAt :
                    /\ h > 1 /\ req.trace[h - 1] = "client.Do"
                    /\ \A i \in 1..Len(req.trace) :
                          req.trace[i] \in {"Read", "Write", "Flush", "Write:error"} => h < i
              /\ ~GatewayError
        /\ (req.pc \in {"idle", "forwarding"}) => req.body = << >>
        /\ (req.status = StatusBadGateway /\ req.pc = "done") =>
              (GatewayError <=> req.resp = NoResponse)

\* The upstream's own 502 was passed through with the upstream's body, as an
\* event stream.
C38_Witness ==
    /\ Proxied /\ req.pc = "done" /\ StreamingMode
    /\ req.resp.StatusCode = StatusBadGateway
    /\ req.status = StatusBadGateway
    /\ req.body = <<"b1", "b2">>

\* What the client has received of the stream
Delivered == SubSeq(req.body, 1, req.flushed)

\* The relay loop ended with this event.
EndedWith(event) ==
    /\ req.pc = "done" /\ Len(req.trace) >= 2
    /\ req.trace[Len(req.trace) - 1] = event

\* C39: in streaming mode what the client has received is at every moment
\* the beginning of the upstream's body, chunk for chunk; unless a write to
\* the client failed, what was received and what is still unread make up the
\* body, so nothing is lost or doubled, also of a chunk that Read returned
\* together with EOF or an error; and when the loop ends on EOF the client
\* has received the whole body.
C39_StreamPrefix ==
    (Proxied /\ StreamingMode) =>
        /\ Delivered = SubSeq(req.resp.Body, 1, Len(Delivered))
        /\ Delivered = req.body
        /\ Count(req.trace, "Write:error") = 0 => req.body \o req.rest = req.resp.Body
        /\ EndedWith("Write:error") =>
              Len(req.body) + Len(req.rest) + 1 = Len(req.resp.Body)
        /\ EndedWith("Read:EOF") => (Delivered = req.resp.Body /\ req.rest = << >>)

\* The last chunk came together with EOF, and the client has the whole body.
C39_Witness ==
    /\ Proxied /\ EndedWith("Read:EOF")
    /\ Len(req.trace) >= 5
    /\ SubSeq(req.trace, Len(req.trace) - 4, Len(req.trace)) =
          <<"Read", "Write", "Flush", "Read:EOF", "return">>
    /\ Delivered = <<"b1", "b2">>

====
